---- MODULE Spec2Model ----
(***************************************************************************)
(* Model of the binary-tree tiling engine of hyprwm.                       *)
(*                                                                         *)
(*   src/src/core/App.ts, lines   1-205 : App (the orchestrator)           *)
(*   src/src/core/App.ts, lines 207-634 : DesktopManager (tree algorithms) *)
(*   src/src/core/App.ts, lines 636-688 : UserPreferences                  *)
(*   src/unnamed/part_000               : an earlier App (other handlers)  *)
(*   src/unnamed/part_002, lines 78-96  : Tile and Container               *)
(*                                                                         *)
(* JavaScript objects are modelled as cells of a heap, because the code    *)
(* shares and mutates nodes in place.  Lengths are JavaScript numbers:     *)
(* they are kept here as integer multiples of 1/Scale pixel, so that the   *)
(* division by two of the split is exact, as it is for doubles.            *)
(***************************************************************************)
EXTENDS Integers, Sequences, FiniteSets, TLC

(***************************************************************************)
(* Bounds of the model.                                                    *)
(***************************************************************************)
\* window identifiers the host hands out: 1..MaxWindows
MaxWindows == 3
\* cells of the node heap; a handler that would need more is not taken
MaxNodes == 8
\* the settings general-gaps-in and general-gaps-out range over 0..MaxGap
MaxGap == 1
\* host events in a run, after the construction of the App
MaxEvents == 3
\* constraints of a Container tried on #splitArea: 0..MaxConstraint pixels
MaxConstraint == 3
\* insets and spacings tried on workArea: -1..MaxInset pixels
MaxInset == 4

\* sub-pixel resolution: a length v pixels is stored as v * Scale.  A tree of
\* at most MaxNodes cells halves a length fewer than MaxNodes times.
Scale == 2 ^ MaxNodes
Px(n) == n * Scale

(***************************************************************************)
(* The host: monitors, workspaces, windows.                                *)
(***************************************************************************)
\* Monitor geometry in pixels, side by side; monitor 0 is wider than tall,
\* monitor 1 taller than wide.  The raw work area of a monitor is its
\* geometry (no panel).
MonitorGeometry ==
  <<[x |-> 0, y |-> 0, width |-> 8, height |-> 4],
    [x |-> 8, y |-> 0, width |-> 7, height |-> 8]>>

\* display.get_n_monitors(); monitors are indexed from 0 as in the source
Monitors == 0 .. (Len(MonitorGeometry) - 1)
\* workspaceManager.nWorkspaces; workspaces are indexed from 0
WorkspaceNames == <<"ws0", "ws1">>
Workspaces == 0 .. (Len(WorkspaceNames) - 1)
Windows == 1 .. MaxWindows
Gaps == 0 .. MaxGap

Rect(x, y, w, h) == [x |-> x, y |-> y, width |-> w, height |-> h]

\* workspace.get_work_area_for_monitor(monitorIdx)
RawWorkArea(m) ==
  LET g == MonitorGeometry[m + 1]
  IN Rect(Px(g.x), Px(g.y), Px(g.width), Px(g.height))

\* The pointer positions the model draws from, in pixels.  On each monitor:
\* its north-west corner (in the margin a positive inset leaves), a point
\* inside the first quarter, the centre (on the line of the first split,
\* and of the second) and a point inside the last quarter.
PointerPositions ==
  UNION { LET g == MonitorGeometry[m + 1]
          IN { [x |-> g.x, y |-> g.y],
               [x |-> g.x + 1, y |-> g.y + 1],
               [x |-> g.x + g.width \div 2, y |-> g.y + g.height \div 2],
               [x |-> g.x + g.width - 2, y |-> g.y + g.height - 1] }
          : m \in 0 .. (Len(MonitorGeometry) - 1) }

\* display.get_current_monitor(): the monitor the pointer is on
CurrentMonitor(p) ==
  CHOOSE m \in Monitors :
    LET g == MonitorGeometry[m + 1]
    IN /\ p.x >= g.x /\ p.x < g.x + g.width
       /\ p.y >= g.y /\ p.y < g.y + g.height

\* Shell.Global.get().get_pointer(), as the numbers the code compares
PointOf(p) == [x |-> Px(p.x), y |-> Px(p.y)]

(***************************************************************************)
(* Tile, Container and Node (part_002:78-96, types/tree.js).               *)
(***************************************************************************)
NULL == 0
Addr == 1 .. MaxNodes

\* a heap cell no object occupies
FreeCell ==
  [kind |-> "Free", id |-> 0, split |-> "None", constraint |-> 0,
   left |-> NULL, right |-> NULL]

\* { data: new Tile(id) }
Tile(id) ==
  [kind |-> "Tile", id |-> id, split |-> "None", constraint |-> 0,
   left |-> NULL, right |-> NULL]

\* { data: new Container(split) }: the constructor leaves constraint
\* undefined, modelled as 0 (both are falsy in the tests of the code)
Container(split) ==
  [kind |-> "Container", id |-> 0, split |-> split, constraint |-> 0,
   left |-> NULL, right |-> NULL]

\* node.data = payload, the children kept
SetData(node, payload) ==
  [node EXCEPT !.kind = payload.kind, !.id = payload.id,
               !.split = payload.split, !.constraint = payload.constraint]

IsTile(node) == node.kind = "Tile"
IsContainer(node) == node.kind = "Container"

FreeAddrs(h) == { a \in Addr : h[a].kind = "Free" }
\* the cell a `{ data: ... }` literal gets: the lowest free one
Alloc(h) == CHOOSE a \in FreeAddrs(h) : \A b \in FreeAddrs(h) : a <= b

(***************************************************************************)
(* DesktopManager: #pointInRectangle and #splitArea.                       *)
(***************************************************************************)
pointInRectangle(point, rectangle) ==
  /\ point.x >= rectangle.x
  /\ point.x <= rectangle.x + rectangle.width
  /\ point.y >= rectangle.y
  /\ point.y <= rectangle.y + rectangle.height

\* area[dimension] / 2 on JavaScript numbers
Half(v) == v \div 2

\* A variant of the default of #splitArea that splits a square area
\* Horizontal, to show that the orientation stated below depends on the
\* comparison of App.ts:607.
DefaultContainer_squareHorizontal(area) ==
  Container(IF area.height >= area.width THEN "Horizontal" ELSE "Vertical")

\* new Container(area.height > area.width ? "Horizontal" : "Vertical")
DefaultContainer(area) ==
  Container(IF area.height > area.width THEN "Horizontal" ELSE "Vertical")

\* A variant of #splitArea that leaves the right rectangle at the origin of
\* `area`, to show that the values stated of #splitArea below depend on the
\* offset.
splitArea_noOffset(area, container) ==
  LET horizontal == container.split = "Horizontal"
      whole == IF horizontal THEN area.height ELSE area.width
      first == IF container.constraint # 0 THEN container.constraint
               ELSE Half(whole)
      rest == IF container.constraint # 0 THEN whole - container.constraint
              ELSE Half(whole)
  IN [left |-> IF horizontal THEN [area EXCEPT !.height = first]
               ELSE [area EXCEPT !.width = first],
      right |-> IF horizontal THEN [area EXCEPT !.height = rest]
                ELSE [area EXCEPT !.width = rest],
      container |-> container]

\* the left and right rectangles of `area` under `container`
splitArea(area, container) ==
  LET horizontal == container.split = "Horizontal"
      whole == IF horizontal THEN area.height ELSE area.width
      first == IF container.constraint # 0 THEN container.constraint
               ELSE Half(whole)
      rest == IF container.constraint # 0 THEN whole - container.constraint
              ELSE Half(whole)
  IN [left |-> IF horizontal THEN [area EXCEPT !.height = first]
               ELSE [area EXCEPT !.width = first],
      right |-> IF horizontal
                THEN [area EXCEPT !.height = rest, !.y = area.y + first]
                ELSE [area EXCEPT !.width = rest, !.x = area.x + first],
      container |-> container]

(***************************************************************************)
(* Variants of pushTree with one line changed, to show that the properties *)
(* stated of pushTree below depend on that line.                           *)
(***************************************************************************)
\* without the test of the point at the top (App.ts:556)
RECURSIVE pushTree_noGuard(_, _, _, _, _)
pushTree_noGuard(h, tree, point, newTile, area) ==
  LET node == h[tree] IN
  IF IsContainer(node) /\ node.left = NULL /\ node.right = NULL
  THEN \* Node has no window. Only possible on empty desktop.
       [h |-> [h EXCEPT ![tree] = SetData(node, newTile)], st |-> "ok"]
  ELSE IF IsTile(node) /\ ~pointInRectangle(point, area)
  THEN [h |-> h, st |-> "ok"]
  ELSE IF IsTile(node)
  THEN IF Cardinality(FreeAddrs(h)) < 2 THEN [h |-> h, st |-> "full"]
       ELSE
       LET s == splitArea(area, DefaultContainer(area))
           temp == Tile(node.id)
           a1 == Alloc(h)
           inLeft == pointInRectangle(point, s.left)
           h1 == [h EXCEPT ![a1] = IF inLeft THEN newTile ELSE temp]
           a2 == Alloc(h1)
           h2 == [h1 EXCEPT ![a2] = IF inLeft THEN temp ELSE newTile]
       IN [h |-> [h2 EXCEPT ![tree] =
                    [SetData(node, s.container) EXCEPT !.left = a1, !.right = a2]],
           st |-> "ok"]
  ELSE IF IsContainer(node) /\ node.left # NULL /\ node.right # NULL
  THEN LET s == splitArea(area, node)
           r1 == pushTree_noGuard(h, node.left, point, newTile, s.left)
       IN IF r1.st # "ok" THEN r1
          ELSE pushTree_noGuard(r1.h, node.right, point, newTile, s.right)
  ELSE [h |-> h, st |-> "throw"]

\* the tile of the split leaf is not kept
RECURSIVE pushTree_losesTile(_, _, _, _, _)
pushTree_losesTile(h, tree, point, newTile, area) ==
  LET node == h[tree] IN
  IF ~pointInRectangle(point, area) THEN [h |-> h, st |-> "ok"]
  ELSE IF IsContainer(node) /\ node.left = NULL /\ node.right = NULL
  THEN \* Node has no window. Only possible on empty desktop.
       [h |-> [h EXCEPT ![tree] = SetData(node, newTile)], st |-> "ok"]
  ELSE IF IsTile(node)
  THEN IF Cardinality(FreeAddrs(h)) < 2 THEN [h |-> h, st |-> "full"]
       ELSE
       LET s == splitArea(area, DefaultContainer(area))
           temp == newTile
           a1 == Alloc(h)
           inLeft == pointInRectangle(point, s.left)
           h1 == [h EXCEPT ![a1] = IF inLeft THEN newTile ELSE temp]
           a2 == Alloc(h1)
           h2 == [h1 EXCEPT ![a2] = IF inLeft THEN temp ELSE newTile]
       IN [h |-> [h2 EXCEPT ![tree] =
                    [SetData(node, s.container) EXCEPT !.left = a1, !.right = a2]],
           st |-> "ok"]
  ELSE IF IsContainer(node) /\ node.left # NULL /\ node.right # NULL
  THEN LET s == splitArea(area, node)
           r1 == pushTree_losesTile(h, node.left, point, newTile, s.left)
       IN IF r1.st # "ok" THEN r1
          ELSE pushTree_losesTile(r1.h, node.right, point, newTile, s.right)
  ELSE [h |-> h, st |-> "throw"]

\* A variant of pushTree that puts the new tile into the right half when
\* the point is in the left half and into the left half otherwise, to show
\* that the placement stated below depends on the test of App.ts:571.
RECURSIVE pushTree_swapsHalves(_, _, _, _, _)
pushTree_swapsHalves(h, tree, point, newTile, area) ==
  LET node == h[tree] IN
  IF ~pointInRectangle(point, area) THEN [h |-> h, st |-> "ok"]
  ELSE IF IsContainer(node) /\ node.left = NULL /\ node.right = NULL
  THEN [h |-> [h EXCEPT ![tree] = SetData(node, newTile)], st |-> "ok"]
  ELSE IF IsTile(node)
  THEN IF Cardinality(FreeAddrs(h)) < 2 THEN [h |-> h, st |-> "full"]
       ELSE
       LET s == splitArea(area, DefaultContainer(area))
           temp == Tile(node.id)
           a1 == Alloc(h)
           inLeft == ~pointInRectangle(point, s.left)
           h1 == [h EXCEPT ![a1] = IF inLeft THEN newTile ELSE temp]
           a2 == Alloc(h1)
           h2 == [h1 EXCEPT ![a2] = IF inLeft THEN temp ELSE newTile]
       IN [h |-> [h2 EXCEPT ![tree] =
                    [SetData(node, s.container) EXCEPT !.left = a1, !.right = a2]],
           st |-> "ok"]
  ELSE IF IsContainer(node) /\ node.left # NULL /\ node.right # NULL
  THEN LET s == splitArea(area, node)
           r1 == pushTree_swapsHalves(h, node.left, point, newTile, s.left)
       IN IF r1.st # "ok" THEN r1
          ELSE pushTree_swapsHalves(r1.h, node.right, point, newTile, s.right)
  ELSE [h |-> h, st |-> "throw"]

(***************************************************************************)
(* DesktopManager.pushTree (App.ts:551-590).  The result is the heap after *)
(* the call and how the call ended: "ok", "throw" (the Not handled error)  *)
(* or "full" (the model's heap has no cell left for a node literal).       *)
(***************************************************************************)
RECURSIVE pushTree(_, _, _, _, _)
pushTree(h, tree, point, newTile, area) ==
  LET node == h[tree] IN
  IF ~pointInRectangle(point, area) THEN [h |-> h, st |-> "ok"]
  ELSE IF IsContainer(node) /\ node.left = NULL /\ node.right = NULL
  THEN \* Node has no window. Only possible on empty desktop.
       [h |-> [h EXCEPT ![tree] = SetData(node, newTile)], st |-> "ok"]
  ELSE IF IsTile(node)
  THEN IF Cardinality(FreeAddrs(h)) < 2 THEN [h |-> h, st |-> "full"]
       ELSE
       LET s == splitArea(area, DefaultContainer(area))
           temp == Tile(node.id)
           a1 == Alloc(h)
           inLeft == pointInRectangle(point, s.left)
           h1 == [h EXCEPT ![a1] = IF inLeft THEN newTile ELSE temp]
           a2 == Alloc(h1)
           h2 == [h1 EXCEPT ![a2] = IF inLeft THEN temp ELSE newTile]
       IN [h |-> [h2 EXCEPT ![tree] =
                    [SetData(node, s.container) EXCEPT !.left = a1, !.right = a2]],
           st |-> "ok"]
  ELSE IF IsContainer(node) /\ node.left # NULL /\ node.right # NULL
  THEN LET s == splitArea(area, node)
           r1 == pushTree(h, node.left, point, newTile, s.left)
       IN IF r1.st # "ok" THEN r1
          ELSE pushTree(r1.h, node.right, point, newTile, s.right)
  ELSE [h |-> h, st |-> "throw"]

(***************************************************************************)
(* Variants of removeId with one line changed, to show that the properties *)
(* stated of removeId below depend on that line.                           *)
(***************************************************************************)
\* returns the matching child (tree.left for tree.right and back) instead
\* of its sibling
RECURSIVE removeId_returnsMatch(_, _, _)
removeId_returnsMatch(h, tree, id) ==
  LET node == h[tree] IN
  IF IsContainer(node) /\ node.left # NULL /\ node.right # NULL
  THEN LET r1 == IF IsContainer(h[node.left])
                 THEN removeId_returnsMatch(h, node.left, id)
                 ELSE [h |-> h, root |-> node.left]
           h1 == [r1.h EXCEPT ![tree].left = r1.root]
           r2 == IF IsContainer(h1[h1[tree].right])
                 THEN removeId_returnsMatch(h1, h1[tree].right, id)
                 ELSE [h |-> h1, root |-> h1[tree].right]
           h2 == [r2.h EXCEPT ![tree].right = r2.root]
           l == h2[tree].left
           r == h2[tree].right
       IN IF IsTile(h2[l]) /\ h2[l].id = id THEN [h |-> h2, root |-> l]
          ELSE IF IsTile(h2[r]) /\ h2[r].id = id THEN [h |-> h2, root |-> r]
          ELSE [h |-> h2, root |-> tree]
  ELSE IF IsTile(node) /\ node.id = id
  THEN [h |-> [h EXCEPT ![tree] = SetData(node, Container("Horizontal"))],
        root |-> tree]
  ELSE [h |-> h, root |-> tree]

\* clears a Tile at the root without comparing its id
RECURSIVE removeId_clearsAnyTile(_, _, _)
removeId_clearsAnyTile(h, tree, id) ==
  LET node == h[tree] IN
  IF IsContainer(node) /\ node.left # NULL /\ node.right # NULL
  THEN LET r1 == IF IsContainer(h[node.left])
                 THEN removeId_clearsAnyTile(h, node.left, id)
                 ELSE [h |-> h, root |-> node.left]
           h1 == [r1.h EXCEPT ![tree].left = r1.root]
           r2 == IF IsContainer(h1[h1[tree].right])
                 THEN removeId_clearsAnyTile(h1, h1[tree].right, id)
                 ELSE [h |-> h1, root |-> h1[tree].right]
           h2 == [r2.h EXCEPT ![tree].right = r2.root]
           l == h2[tree].left
           r == h2[tree].right
       IN IF IsTile(h2[l]) /\ h2[l].id = id THEN [h |-> h2, root |-> r]
          ELSE IF IsTile(h2[r]) /\ h2[r].id = id THEN [h |-> h2, root |-> l]
          ELSE [h |-> h2, root |-> tree]
  ELSE IF IsTile(node)
  THEN [h |-> [h EXCEPT ![tree] = SetData(node, Container("Horizontal"))],
        root |-> tree]
  ELSE [h |-> h, root |-> tree]

\* keeps the Container whose right child is the matching Tile instead of
\* returning its left child
RECURSIVE removeId_keepsRightMatch(_, _, _)
removeId_keepsRightMatch(h, tree, id) ==
  LET node == h[tree] IN
  IF IsContainer(node) /\ node.left # NULL /\ node.right # NULL
  THEN LET r1 == IF IsContainer(h[node.left])
                 THEN removeId_keepsRightMatch(h, node.left, id)
                 ELSE [h |-> h, root |-> node.left]
           h1 == [r1.h EXCEPT ![tree].left = r1.root]
           r2 == IF IsContainer(h1[h1[tree].right])
                 THEN removeId_keepsRightMatch(h1, h1[tree].right, id)
                 ELSE [h |-> h1, root |-> h1[tree].right]
           h2 == [r2.h EXCEPT ![tree].right = r2.root]
           l == h2[tree].left
           r == h2[tree].right
       IN IF IsTile(h2[l]) /\ h2[l].id = id THEN [h |-> h2, root |-> r]
          ELSE IF IsTile(h2[r]) /\ h2[r].id = id THEN [h |-> h2, root |-> tree]
          ELSE [h |-> h2, root |-> tree]
  ELSE IF IsTile(node) /\ node.id = id
  THEN [h |-> [h EXCEPT ![tree] = SetData(node, Container("Horizontal"))],
        root |-> tree]
  ELSE [h |-> h, root |-> tree]

\* turns the split of every Container the walk passes
RECURSIVE removeId_flipsSplit(_, _, _)
removeId_flipsSplit(h, tree, id) ==
  LET node == h[tree] IN
  IF IsContainer(node) /\ node.left # NULL /\ node.right # NULL
  THEN LET r1 == IF IsContainer(h[node.left])
                 THEN removeId_flipsSplit(h, node.left, id)
                 ELSE [h |-> h, root |-> node.left]
           h1 == [r1.h EXCEPT ![tree].left = r1.root]
           r2 == IF IsContainer(h1[h1[tree].right])
                 THEN removeId_flipsSplit(h1, h1[tree].right, id)
                 ELSE [h |-> h1, root |-> h1[tree].right]
           h2 == [r2.h EXCEPT ![tree].right = r2.root,
                             ![tree].split = IF @ = "Horizontal"
                                             THEN "Vertical"
                                             ELSE "Horizontal"]
           l == h2[tree].left
           r == h2[tree].right
       IN IF IsTile(h2[l]) /\ h2[l].id = id THEN [h |-> h2, root |-> r]
          ELSE IF IsTile(h2[r]) /\ h2[r].id = id THEN [h |-> h2, root |-> l]
          ELSE [h |-> h2, root |-> tree]
  ELSE IF IsTile(node) /\ node.id = id
  THEN [h |-> [h EXCEPT ![tree] = SetData(node, Container("Horizontal"))],
        root |-> tree]
  ELSE [h |-> h, root |-> tree]

(***************************************************************************)
(* DesktopManager.removeId (App.ts:378-396).  The result is the heap after *)
(* the call and the node the call returns.                                 *)
(***************************************************************************)
RECURSIVE removeId(_, _, _)
removeId(h, tree, id) ==
  LET node == h[tree] IN
  IF IsContainer(node) /\ node.left # NULL /\ node.right # NULL
  THEN LET r1 == IF IsContainer(h[node.left])
                 THEN removeId(h, node.left, id)
                 ELSE [h |-> h, root |-> node.left]
           h1 == [r1.h EXCEPT ![tree].left = r1.root]
           r2 == IF IsContainer(h1[h1[tree].right])
                 THEN removeId(h1, h1[tree].right, id)
                 ELSE [h |-> h1, root |-> h1[tree].right]
           h2 == [r2.h EXCEPT ![tree].right = r2.root]
           l == h2[tree].left
           r == h2[tree].right
       IN IF IsTile(h2[l]) /\ h2[l].id = id THEN [h |-> h2, root |-> r]
          ELSE IF IsTile(h2[r]) /\ h2[r].id = id THEN [h |-> h2, root |-> l]
          ELSE [h |-> h2, root |-> tree]
  ELSE IF IsTile(node) /\ node.id = id
  THEN [h |-> [h EXCEPT ![tree] = SetData(node, Container("Horizontal"))],
        root |-> tree]
  ELSE [h |-> h, root |-> tree]

(***************************************************************************)
(* UserPreferences (App.ts:654-688) and DesktopManager.workArea            *)
(* (App.ts:465-486).  The settings are whole pixels.                       *)
(***************************************************************************)
\* getSpacing(): general-gaps-in
getSpacing(gIn) == Px(gIn)
\* getInset(): general-gaps-out on all four sides
getInset(gOut) ==
  [top |-> Px(gOut), right |-> Px(gOut), bottom |-> Px(gOut), left |-> Px(gOut)]

\* Math.floor on a non-negative number
Floor(v) == (v \div Scale) * Scale
\* Math.clamp(x, lower, upper) of the shell environment
Clamp(x, lower, upper) ==
  LET lo == IF x > lower THEN x ELSE lower
  IN IF lo < upper THEN lo ELSE upper

\* A variant of workArea that takes the inset as it is, to show that the
\* values stated of workArea below depend on the clamp.
workAreaOf_unclamped(raw, gIn, gOut) ==
  LET inset == getInset(gOut)
      spacing == getSpacing(gIn)
  IN Rect(raw.x + (inset.left - spacing),
          raw.y + (inset.top - spacing),
          raw.width - (inset.left + inset.right - spacing * 2),
          raw.height - (inset.top + inset.bottom - spacing * 2))

\* workArea (App.ts:465-486) from the rectangle the host returns for the
\* monitor
workAreaOf(raw, gIn, gOut) ==
  LET inset == getInset(gOut)
      top == Clamp(inset.top, 0, Floor(Half(raw.height)))
      bottom == Clamp(inset.bottom, 0, Floor(Half(raw.height)))
      left == Clamp(inset.left, 0, Floor(Half(raw.width)))
      right == Clamp(inset.right, 0, Floor(Half(raw.width)))
      spacing == getSpacing(gIn)
  IN Rect(raw.x + (left - spacing),
          raw.y + (top - spacing),
          raw.width - (left + right - spacing * 2),
          raw.height - (top + bottom - spacing * 2))

workArea(monitorIdx, gIn, gOut) ==
  workAreaOf(RawWorkArea(monitorIdx), gIn, gOut)

(***************************************************************************)
(* DesktopManager: #moveResize, #fit, #fitTree, autotile.                  *)
(***************************************************************************)
\* The host keeps frame rectangles in whole pixels: a number handed to
\* move_resize_frame is converted to a 32-bit integer, towards zero.
ToInt(v) == IF v >= 0 THEN (v \div Scale) * Scale
            ELSE 0 - (((0 - v) \div Scale) * Scale)

\* the frame rectangle of the target after #moveResize (App.ts:404-426)
moveResize(x, y, size, spacing) ==
  Rect(ToInt(x + spacing), ToInt(y + spacing),
       ToInt(size.width - spacing * 2), ToInt(size.height - spacing * 2))

\* windows.find(window => window.get_id() === id): NULL stands for undefined
Find(windows, id) == IF id \in windows THEN id ELSE NULL

\* The effect of a fit pass so far: the frame rectangles, the windows handed
\* to #moveResize and the animation, and whether the pass threw.
FitStart(fr) == [fr |-> fr, moved |-> {}, threw |-> FALSE]

\* A variant of #fit that deducts the spacing from the size the window has
\* instead of the size of its rectangle, to show that the property of two
\* fit passes below depends on what #fit hands to #moveResize.
fit_shrinksWindow(acc, target, rect, spacing) ==
  IF target = NULL THEN [acc EXCEPT !.threw = TRUE]
  ELSE IF acc.fr[target] = rect THEN acc
  ELSE [acc EXCEPT !.fr[target] =
                     moveResize(rect.x, rect.y, acc.fr[target], spacing),
                   !.moved = @ \cup {target}]

\* A variant of #fit that skips a target that is undefined, to show that
\* the error stated below comes from the unchecked target.
fit_skipsMissing(acc, target, rect, spacing) ==
  IF target = NULL THEN acc
  ELSE IF acc.fr[target] = rect THEN acc
  ELSE [acc EXCEPT !.fr[target] = moveResize(rect.x, rect.y, rect, spacing),
                   !.moved = @ \cup {target}]

\* #fit (App.ts:428-463); an undefined target throws at get_frame_rect()
fit(acc, target, rect, spacing) ==
  IF target = NULL THEN [acc EXCEPT !.threw = TRUE]
  ELSE IF acc.fr[target] = rect THEN acc
  ELSE [acc EXCEPT !.fr[target] = moveResize(rect.x, rect.y, rect, spacing),
                   !.moved = @ \cup {target}]

\* A variant of the rectangles of #fitTree that gives the right child the
\* left child's length when the Container has a constraint, to show that
\* the agreement with #splitArea stated below depends on App.ts:519.
fitAreas_equalRest(area, node) ==
  LET horizontal == node.split = "Horizontal"
      whole == IF horizontal THEN area.height ELSE area.width
      first == IF node.constraint # 0 THEN node.constraint ELSE Half(whole)
      rest == first
  IN [left |-> IF horizontal THEN [area EXCEPT !.height = first]
               ELSE [area EXCEPT !.width = first],
      right |-> IF horizontal
                THEN [area EXCEPT !.height = rest, !.y = area.y + first]
                ELSE [area EXCEPT !.width = rest, !.x = area.x + first]]

\* the rectangles #fitTree computes for the children of a populated
\* Container (App.ts:500-526)
fitAreas(area, node) ==
  LET horizontal == node.split = "Horizontal"
      whole == IF horizontal THEN area.height ELSE area.width
      first == IF node.constraint # 0 THEN node.constraint ELSE Half(whole)
      rest == IF node.constraint # 0 THEN whole - node.constraint
              ELSE Half(whole)
  IN [left |-> IF horizontal THEN [area EXCEPT !.height = first]
               ELSE [area EXCEPT !.width = first],
      right |-> IF horizontal
                THEN [area EXCEPT !.height = rest, !.y = area.y + first]
                ELSE [area EXCEPT !.width = rest, !.x = area.x + first]]

\* #fitTree (App.ts:488-549)
RECURSIVE fitTree(_, _, _, _, _, _)
fitTree(h, tree, area, windows, spacing, acc) ==
  LET node == h[tree] IN
  IF IsContainer(node) /\ node.left = NULL /\ node.right = NULL
  THEN \* Node has no window. Only possible on empty desktop.
       acc
  ELSE IF IsTile(node)
  THEN fit(acc, Find(windows, node.id), area, spacing)
  ELSE IF IsContainer(node) /\ node.left # NULL /\ node.right # NULL
  THEN LET leftArea == fitAreas(area, node).left
           rightArea == fitAreas(area, node).right
           a1 == IF IsTile(h[node.left])
                 THEN fit(acc, Find(windows, h[node.left].id), leftArea, spacing)
                 ELSE fitTree(h, node.left, leftArea, windows, spacing, acc)
       IN IF a1.threw THEN a1
          ELSE IF IsTile(h[node.right])
          THEN fit(a1, Find(windows, h[node.right].id), rightArea, spacing)
          ELSE fitTree(h, node.right, rightArea, windows, spacing, a1)
  ELSE [acc EXCEPT !.threw = TRUE]


(***************************************************************************)
(* The state.                                                              *)
(***************************************************************************)
VARIABLES
  heap,      \* the node objects: Addr -> cell
  forest,    \* App.#tree: forest[workspace][monitor] is the root's address
  win,       \* the host's windows: Windows -> attributes
  frame,     \* window.get_frame_rect() of each window
  activeWs,  \* workspace_manager.get_active_workspace().index()
  gapsIn,    \* the setting general-gaps-in (spacing)
  gapsOut,   \* the setting general-gaps-out (inset)
  grab,      \* the window of the grab operation in progress, or NULL
  app,       \* "running" after App.run, "failed" when the constructor threw
  events,    \* the number of host events since the construction
  last       \* what the handler of the last event did

vars ==
  <<heap, forest, win, frame, activeWs, gapsIn, gapsOut, grab, app, events,
    last>>

NoWindow ==
  [exists |-> FALSE, ws |-> 0, mon |-> 0, min |-> FALSE, vis |-> FALSE,
   hooked |-> FALSE]
NoFrame == Rect(0, 0, 0, 0)

\* the frame rectangle of a window before the App places it: a small
\* rectangle inside the monitor
InitFrame(m) ==
  LET raw == RawWorkArea(m)
  IN Rect(raw.x + Px(1), raw.y + Px(1), Px(2), Px(2))

\* The filter of App.ts:131-136 and 368-373 on workspace.list_windows().
\* Every window of the model has the NORMAL window and frame type and a
\* title that is not blacklisted.
Eligible(w, ws, monitorIdx) ==
  /\ w.exists
  /\ w.ws = ws
  /\ ~(w.min \/ w.mon # monitorIdx)

EligibleWindows(wn, ws, monitorIdx) ==
  { w \in Windows : Eligible(wn[w], ws, monitorIdx) }

\* autotile (App.ts:362-376): the fit of `tree` against the work area and
\* the windows of the pointer's monitor on the active workspace
autotile(h, tree, cur, ws, wn, gIn, gOut, fr) ==
  fitTree(h, tree, workArea(cur, gIn, gOut), EligibleWindows(wn, ws, cur),
          getSpacing(gIn), FitStart(fr))

(***************************************************************************)
(* Measures of a tree.                                                     *)
(***************************************************************************)
\* the tile ids of the leaves, left to right
RECURSIVE Leaves(_, _)
Leaves(h, t) ==
  IF t = NULL THEN <<>>
  ELSE IF h[t].left = NULL /\ h[t].right = NULL
  THEN IF IsTile(h[t]) THEN <<h[t].id>> ELSE <<>>
  ELSE Leaves(h, h[t].left) \o Leaves(h, h[t].right)

LeafCount(h, t) == Len(Leaves(h, t))
TileIds(h, t) == { Leaves(h, t)[i] : i \in 1 .. LeafCount(h, t) }

\* The slots in the order the loops of #initTree visit them: monitor by
\* monitor, and within a monitor workspace by workspace.
SlotOrder ==
  [i \in 1 .. (Cardinality(Monitors) * Cardinality(Workspaces)) |->
     [mon |-> (i - 1) \div Cardinality(Workspaces),
      ws |-> (i - 1) % Cardinality(Workspaces)]]

\* the cells of the subtree at t, in pre-order, appended to `seen`
RECURSIVE Visit(_, _, _)
Visit(h, t, seen) ==
  IF t = NULL \/ \E i \in 1 .. Len(seen) : seen[i] = t THEN seen
  ELSE Visit(h, h[t].right, Visit(h, h[t].left, Append(seen, t)))

RECURSIVE VisitSlots(_, _, _, _)
VisitSlots(h, f, i, seen) ==
  IF i > Len(SlotOrder) THEN seen
  ELSE VisitSlots(h, f, i + 1,
                  Visit(h, f[SlotOrder[i].ws][SlotOrder[i].mon], seen))

\* Garbage collection: the objects no slot reaches are dropped, and the
\* live ones take the first cells, in the order the slots reach them.  The
\* code cannot observe which cell an object occupies.
Collect(h, f) ==
  LET seen == VisitSlots(h, f, 1, <<>>)
      to(a) == IF a = NULL THEN NULL
               ELSE CHOOSE i \in 1 .. Len(seen) : seen[i] = a
  IN [h |-> [a \in Addr |->
               IF a <= Len(seen)
               THEN [h[seen[a]] EXCEPT !.left = to(@), !.right = to(@)]
               ELSE FreeCell],
      f |-> [ws \in Workspaces |-> [m \in Monitors |-> to(f[ws][m])]]]

(***************************************************************************)
(* Predicates on a tree.                                                   *)
(***************************************************************************)
\* the cells of the tree at t
Cells(h, t) == { Visit(h, t, <<>>)[i] : i \in 1 .. Len(Visit(h, t, <<>>)) }

\* no two leaves of the tree carry the same Tile.id
UniqueIds(h, t) == Cardinality(TileIds(h, t)) = LeafCount(h, t)

\* a Tile without children, or a Container with both
ProperNode(node) ==
  \/ IsTile(node) /\ node.left = NULL /\ node.right = NULL
  \/ IsContainer(node) /\ node.left # NULL /\ node.right # NULL

EmptyContainer(node) ==
  IsContainer(node) /\ node.left = NULL /\ node.right = NULL

\* the shapes the data model allows: an empty Container at the root only
ValidShape(h, t) ==
  /\ ProperNode(h[t]) \/ EmptyContainer(h[t])
  /\ \A a \in Cells(h, t) \ {t} : ProperNode(h[a])

ValidTree(h, t) == ValidShape(h, t) /\ UniqueIds(h, t)

(***************************************************************************)
(* App.#initTree (App.ts:115-159).                                         *)
(***************************************************************************)
\* A variant of the loop that picks the split from the work area alone, to
\* show that the shape stated of the build below depends on the index.
RECURSIVE buildLoop_wideOnly(_, _, _, _, _)
buildLoop_wideOnly(h, root, windows, index, area) ==
  IF index >= Len(windows) THEN h
  ELSE
  LET window == windows[index + 1]
      node == h[root]
  IN IF IsContainer(node)
     THEN IF node.right = NULL
          THEN buildLoop_wideOnly([h EXCEPT ![root] = SetData(node, Tile(window))],
                         root, windows, index + 1, area)
          ELSE buildLoop_wideOnly(h, node.right, windows, index + 1, area)
     ELSE LET a1 == Alloc(h)
              h1 == [h EXCEPT ![a1] = Tile(node.id)]
              a2 == Alloc(h1)
              h2 == [h1 EXCEPT ![a2] = Tile(window)]
              split == IF area.width > area.height
                       THEN "Horizontal" ELSE "Vertical"
          IN buildLoop_wideOnly([h2 EXCEPT ![root] =
                          [SetData(node, Container(split))
                             EXCEPT !.left = a1, !.right = a2]],
                       a2, windows, index + 1, area)

\* The loop over the windows of one slot (App.ts:138-154), from `index`.
RECURSIVE buildLoop(_, _, _, _, _)
buildLoop(h, root, windows, index, area) ==
  IF index >= Len(windows) THEN h
  ELSE
  LET window == windows[index + 1]
      node == h[root]
  IN IF IsContainer(node)
     THEN IF node.right = NULL
          THEN buildLoop([h EXCEPT ![root] = SetData(node, Tile(window))],
                         root, windows, index + 1, area)
          ELSE buildLoop(h, node.right, windows, index + 1, area)
     ELSE LET a1 == Alloc(h)
              h1 == [h EXCEPT ![a1] = Tile(node.id)]
              a2 == Alloc(h1)
              h2 == [h1 EXCEPT ![a2] = Tile(window)]
              split == IF index % 2 = 0 /\ area.width > area.height
                       THEN "Horizontal" ELSE "Vertical"
          IN buildLoop([h2 EXCEPT ![root] =
                          [SetData(node, Container(split))
                             EXCEPT !.left = a1, !.right = a2]],
                       a2, windows, index + 1, area)

\* the windows of `order` (the order of list_windows) that pass the filter
ListWindows(order, wn, ws, monitorIdx) ==
  SelectSeq(order, LAMBDA w : Eligible(wn[w], ws, monitorIdx))

\* Array(monitorCount).fill({ data: new Container("Horizontal") }): one node
\* object per workspace, stored in the slot of every monitor.
FilledForest == [ws \in Workspaces |-> [m \in Monitors |-> ws + 1]]
FilledHeap ==
  [a \in Addr |-> IF a - 1 \in Workspaces THEN Container("Horizontal")
                  ELSE FreeCell]

\* the build and the fit of the slots from the i-th on
RECURSIVE initSlots(_, _, _, _, _, _, _, _, _)
initSlots(i, h, acc, order, wn, cur, ws, gIn, gOut) ==
  IF i > Len(SlotOrder) \/ acc.threw THEN [h |-> h, fit |-> acc]
  ELSE
  LET s == SlotOrder[i]
      windows == ListWindows(order, wn, s.ws, s.mon)
      h1 == buildLoop(h, FilledForest[s.ws][s.mon], windows, 0,
                      workArea(s.mon, gIn, gOut))
      a1 == autotile(h1, FilledForest[s.ws][s.mon], cur, ws, wn, gIn, gOut,
                     acc.fr)
  IN initSlots(i + 1, h1, [a1 EXCEPT !.moved = acc.moved \cup a1.moved],
               order, wn, cur, ws, gIn, gOut)

initTree(order, wn, cur, ws, gIn, gOut, fr) ==
  initSlots(1, FilledHeap, FitStart(fr), order, wn, cur, ws, gIn, gOut)

(***************************************************************************)
(* App: the handlers #pushTree, #popTree and #onSettingsGeneralChanged.    *)
(* `wn` is the host's window table when the handler runs, `p` the pointer. *)
(* The result: the heap, the forest, whether autotile was reached, the fit *)
(* pass and how the push ended.                                            *)
(***************************************************************************)
\* App.#pushTree (App.ts:166-179)
App_pushTree(wn, w, p) ==
  LET cur == CurrentMonitor(p)
      root == forest[activeWs][cur]
      r == pushTree(heap, root, PointOf(p), Tile(w),
                    workArea(cur, gapsIn, gapsOut))
  IN IF r.st # "ok"
     THEN [h |-> r.h, f |-> forest, st |-> r.st, ran |-> FALSE,
           fit |-> FitStart(frame)]
     ELSE [h |-> r.h, f |-> forest, st |-> "ok", ran |-> TRUE,
           fit |-> autotile(r.h, root, cur, activeWs, wn, gapsIn, gapsOut,
                            frame)]

\* App.#popTree (App.ts:181-190)
App_popTree(wn, w, p) ==
  LET cur == CurrentMonitor(p)
      r == removeId(heap, forest[activeWs][cur], w)
      f == [forest EXCEPT ![activeWs][cur] = r.root]
  IN [h |-> r.h, f |-> f, st |-> "ok", ran |-> TRUE,
      fit |-> autotile(r.h, f[activeWs][cur], cur, activeWs, wn, gapsIn,
                       gapsOut, frame)]

\* App.#onSettingsGeneralChanged (App.ts:198-204), the settings already set
App_onSettingsGeneralChanged(gIn, gOut, p) ==
  LET cur == CurrentMonitor(p)
  IN [h |-> heap, f |-> forest, st |-> "ok", ran |-> TRUE,
      fit |-> autotile(heap, forest[activeWs][cur], cur, activeWs, win, gIn,
                       gOut, frame)]

(***************************************************************************)
(* What `last` records of an event: the handler that ran ("none" when the  *)
(* App has no handler for it), its window, the pointer's monitor, by how   *)
(* much the handler changed the number of Tile leaves of the slot it       *)
(* worked on, whether that tree held the window's id before, whether the   *)
(* pointer was inside the work area, whether that tree was a valid tree    *)
(* before, and the fit pass: "none", "ok" or "threw".                      *)
(***************************************************************************)
NoHandler ==
  [op |-> "none", win |-> NULL, cur |-> 0, delta |-> 0, present |-> FALSE,
   inside |-> FALSE, valid |-> FALSE, fit |-> "none"]

Handled(op, w, p, r) ==
  LET cur == CurrentMonitor(p)
  IN [op |-> op, win |-> w, cur |-> cur,
      delta |-> LeafCount(r.h, r.f[activeWs][cur])
                - LeafCount(heap, forest[activeWs][cur]),
      present |-> w \in TileIds(heap, forest[activeWs][cur]),
      inside |-> pointInRectangle(PointOf(p), workArea(cur, gapsIn, gapsOut)),
      valid |-> ValidTree(heap, forest[activeWs][cur]),
      fit |-> IF ~r.ran THEN "none" ELSE IF r.fit.threw THEN "threw" ELSE "ok"]

\* the state after a handler with result r
Apply(r) ==
  /\ r.st # "full"
  /\ \E c \in {Collect(r.h, r.f)} : heap' = c.h /\ forest' = c.f
  /\ frame' = r.fit.fr

(***************************************************************************)
(* Init: the state after `new App(extension)`.  The host holds the windows *)
(* 1..n, listed in this order, each on some workspace and monitor; the     *)
(* settings are 0 and workspace 0 is active.                               *)
(***************************************************************************)
InitialWindow(w, n) ==
  [exists : {w <= n}, ws : IF w <= n THEN Workspaces ELSE {0},
   mon : IF w <= n THEN Monitors ELSE {0}, min : {FALSE}, vis : {FALSE},
   hooked : {FALSE}]

Init ==
  /\ activeWs = 0
  /\ gapsIn = 0
  /\ gapsOut = 0
  /\ grab = NULL
  /\ events = 0
  /\ \E n \in 0 .. MaxWindows :
       \E wn \in [Windows -> UNION { InitialWindow(w, n) : w \in Windows }] :
         /\ \A w \in Windows : wn[w] \in InitialWindow(w, n)
         /\ win = [w \in Windows |->
                     [wn[w] EXCEPT !.vis = wn[w].exists /\ wn[w].ws = activeWs]]
  /\ \E cur \in Monitors :
       LET order == [i \in 1 .. Cardinality({ w \in Windows : win[w].exists })
                       |-> i]
           fr == [w \in Windows |->
                    IF win[w].exists THEN InitFrame(win[w].mon) ELSE NoFrame]
           r == initTree(order, win, cur, activeWs, gapsIn, gapsOut, fr)
           c == Collect(r.h, FilledForest)
       IN /\ heap = c.h
          /\ forest = c.f
          /\ frame = r.fit.fr
          /\ app = IF r.fit.threw THEN "failed" ELSE "running"
          /\ last = [NoHandler EXCEPT
                       !.op = "initTree", !.cur = cur,
                       !.fit = IF r.fit.threw THEN "threw" ELSE "ok"]

(***************************************************************************)
(* The host's events.  A handler runs to completion before the next event. *)
(***************************************************************************)
\* a window the host is about to show: it emits `shown` next
Pending(w) ==
  /\ win[w].exists /\ ~win[w].vis /\ ~win[w].min /\ win[w].ws = activeWs
Settled == \A w \in Windows : ~Pending(w)

\* an event the App is there to see, within the bound of the model
Event ==
  /\ app = "running"
  /\ events < MaxEvents
  /\ events' = events + 1
  /\ app' = app

\* window-created (App.ts:86-95): the window appears on the active
\* workspace; the handler connects `shown`
WindowCreated(w, m) ==
  /\ Event /\ Settled
  /\ ~win[w].exists
  /\ win' = [win EXCEPT ![w] = [exists |-> TRUE, ws |-> activeWs, mon |-> m,
                                min |-> FALSE, vis |-> FALSE, hooked |-> TRUE]]
  /\ frame' = [frame EXCEPT ![w] = InitFrame(m)]
  /\ last' = NoHandler
  /\ UNCHANGED <<heap, forest, activeWs, gapsIn, gapsOut, grab>>

\* shown (App.ts:88-93): display.disconnect(windowShown) names no handler
\* of the display, so the handler stays connected to the window
WindowShown(w, p) ==
  /\ Event
  /\ Pending(w)
  /\ win' = [win EXCEPT ![w].vis = TRUE]
  /\ IF win[w].hooked
     THEN \E r \in {App_pushTree(win', w, p)} :
             Apply(r) /\ last' = Handled("pushTree", w, p, r)
     ELSE /\ last' = NoHandler
          /\ UNCHANGED <<heap, forest, frame>>
  /\ UNCHANGED <<activeWs, gapsIn, gapsOut, grab>>

\* grab-op-begin (App.ts:102-104)
GrabOpBegin(w, p) ==
  /\ Event /\ Settled
  /\ grab = NULL /\ win[w].vis
  /\ grab' = w
  /\ \E r \in {App_popTree(win, w, p)} :
        Apply(r) /\ last' = Handled("popTree", w, p, r)
  /\ UNCHANGED <<win, activeWs, gapsIn, gapsOut>>

\* grab-op-end (App.ts:96-98)
GrabOpEnd(w, p) ==
  /\ Event /\ Settled
  /\ grab = w
  /\ grab' = NULL
  /\ \E r \in {App_pushTree(win, w, p)} :
        Apply(r) /\ last' = Handled("pushTree", w, p, r)
  /\ UNCHANGED <<win, activeWs, gapsIn, gapsOut>>

\* window-left-monitor (App.ts:99-101): the window moved to monitor m
WindowLeftMonitor(w, m, p) ==
  /\ Event /\ Settled
  /\ win[w].exists /\ win[w].mon # m
  /\ win' = [win EXCEPT ![w].mon = m]
  /\ \E r \in {App_popTree(win', w, p)} :
        Apply(r) /\ last' = Handled("popTree", w, p, r)
  /\ UNCHANGED <<activeWs, gapsIn, gapsOut, grab>>

\* The window is closed: the host takes it off its workspace and emits
\* window-left-monitor for the monitor it was on.
WindowClosed(w, p) ==
  /\ Event /\ Settled
  /\ win[w].exists /\ grab # w
  /\ win' = [win EXCEPT ![w] = NoWindow]
  /\ \E r \in {App_popTree(win', w, p)} :
        /\ Apply([r EXCEPT !.fit.fr[w] = NoFrame])
        /\ last' = Handled("popTree", w, p, r)
  /\ UNCHANGED <<activeWs, gapsIn, gapsOut, grab>>

\* The window is minimized: no signal the App listens to.
WindowMinimized(w) ==
  /\ Event /\ Settled
  /\ win[w].vis /\ grab # w
  /\ win' = [win EXCEPT ![w].min = TRUE, ![w].vis = FALSE]
  /\ last' = NoHandler
  /\ UNCHANGED <<heap, forest, frame, activeWs, gapsIn, gapsOut, grab>>

\* The window is unminimized: the host shows it again if it is on the
\* active workspace.
WindowUnminimized(w) ==
  /\ Event /\ Settled
  /\ win[w].exists /\ win[w].min
  /\ win' = [win EXCEPT ![w].min = FALSE]
  /\ last' = NoHandler
  /\ UNCHANGED <<heap, forest, frame, activeWs, gapsIn, gapsOut, grab>>

\* The user switches to workspace ws: the windows of the other workspaces
\* are hidden, the windows of ws are shown next.
WorkspaceSwitched(ws) ==
  /\ Event /\ Settled
  /\ grab = NULL /\ ws # activeWs
  /\ activeWs' = ws
  /\ win' = [w \in Windows |-> [win[w] EXCEPT !.vis = FALSE]]
  /\ last' = NoHandler
  /\ UNCHANGED <<heap, forest, frame, gapsIn, gapsOut, grab>>

\* settings changed (App.ts:111, 192-204): one of the two keys gets a
\* new value
SettingsChanged(gIn, gOut, p) ==
  /\ Event /\ Settled
  /\ (gIn # gapsIn /\ gOut = gapsOut) \/ (gIn = gapsIn /\ gOut # gapsOut)
  /\ gapsIn' = gIn
  /\ gapsOut' = gOut
  /\ \E r \in {App_onSettingsGeneralChanged(gIn, gOut, p)} :
        Apply(r) /\ last' = Handled("settingsChanged", NULL, p, r)
  /\ UNCHANGED <<win, activeWs, grab>>

Next ==
  \/ \E w \in Windows, m \in Monitors : WindowCreated(w, m)
  \/ \E w \in Windows, p \in PointerPositions : WindowShown(w, p)
  \/ \E w \in Windows, p \in PointerPositions : GrabOpBegin(w, p)
  \/ \E w \in Windows, p \in PointerPositions : GrabOpEnd(w, p)
  \/ \E w \in Windows, m \in Monitors, p \in PointerPositions : WindowLeftMonitor(w, m, p)
  \/ \E w \in Windows, p \in PointerPositions : WindowClosed(w, p)
  \/ \E w \in Windows : WindowMinimized(w)
  \/ \E w \in Windows : WindowUnminimized(w)
  \/ \E ws \in Workspaces : WorkspaceSwitched(ws)
  \/ \E gIn \in Gaps, gOut \in Gaps, p \in PointerPositions : SettingsChanged(gIn, gOut, p)

Spec == Init /\ [][Next]_vars

(***************************************************************************)
(* The App of src/unnamed/part_000: an earlier wiring of the same          *)
(* handlers.  Its constructor and #initTree (part_000:180-224) are those   *)
(* of App.ts; it listens to window-entered-monitor instead of              *)
(* window-created, and its #popTree drops the node removeId returns.       *)
(***************************************************************************)
\* #pushTree (part_000:232-242)
Legacy_pushTree(wn, w, p) ==
  LET cur == CurrentMonitor(p)
      root == forest[activeWs][cur]
      r == pushTree(heap, root, PointOf(p), Tile(w),
                    workArea(cur, gapsIn, gapsOut))
  IN IF r.st # "ok"
     THEN [h |-> r.h, f |-> forest, st |-> r.st, ran |-> FALSE,
           fit |-> FitStart(frame)]
     ELSE [h |-> r.h, f |-> forest, st |-> "ok", ran |-> TRUE,
           fit |-> autotile(r.h, root, cur, activeWs, wn, gapsIn, gapsOut,
                            frame)]

\* #popTree (part_000:244-251)
Legacy_popTree(wn, w, p) ==
  LET cur == CurrentMonitor(p)
      r == removeId(heap, forest[activeWs][cur], w)
  IN [h |-> r.h, f |-> forest, st |-> "ok", ran |-> TRUE,
      fit |-> autotile(r.h, forest[activeWs][cur], cur, activeWs, wn, gapsIn,
                       gapsOut, frame)]

\* window-entered-monitor (part_000:147-155) for a new window on monitor m:
\* the handler connects `shown`
Legacy_WindowEntered(w, m) ==
  /\ Event /\ Settled
  /\ ~win[w].exists
  /\ win' = [win EXCEPT ![w] = [exists |-> TRUE, ws |-> activeWs, mon |-> m,
                                min |-> FALSE, vis |-> FALSE, hooked |-> TRUE]]
  /\ frame' = [frame EXCEPT ![w] = InitFrame(m)]
  /\ last' = NoHandler
  /\ UNCHANGED <<heap, forest, activeWs, gapsIn, gapsOut, grab>>

\* shown (part_000:149-153)
Legacy_WindowShown(w, p) ==
  /\ Event
  /\ Pending(w)
  /\ win' = [win EXCEPT ![w].vis = TRUE]
  /\ IF win[w].hooked
     THEN \E r \in {Legacy_pushTree(win', w, p)} :
             Apply(r) /\ last' = Handled("pushTree", w, p, r)
     ELSE /\ last' = NoHandler
          /\ UNCHANGED <<heap, forest, frame>>
  /\ UNCHANGED <<activeWs, gapsIn, gapsOut, grab>>

\* grab-op-begin (part_000:163-165)
Legacy_GrabOpBegin(w, p) ==
  /\ Event /\ Settled
  /\ grab = NULL /\ win[w].vis
  /\ grab' = w
  /\ \E r \in {Legacy_popTree(win, w, p)} :
        Apply(r) /\ last' = Handled("popTree", w, p, r)
  /\ UNCHANGED <<win, activeWs, gapsIn, gapsOut>>

\* grab-op-end (part_000:157-159)
Legacy_GrabOpEnd(w, p) ==
  /\ Event /\ Settled
  /\ grab = w
  /\ grab' = NULL
  /\ \E r \in {Legacy_pushTree(win, w, p)} :
        Apply(r) /\ last' = Handled("pushTree", w, p, r)
  /\ UNCHANGED <<win, activeWs, gapsIn, gapsOut>>

\* window-left-monitor (part_000:160-162) and window-entered-monitor: the
\* window moved to monitor m, where the handler connects `shown`
Legacy_WindowLeftMonitor(w, m, p) ==
  /\ Event /\ Settled
  /\ win[w].exists /\ win[w].mon # m
  /\ win' = [win EXCEPT ![w].mon = m, ![w].hooked = TRUE]
  /\ \E r \in {Legacy_popTree(win', w, p)} :
        Apply(r) /\ last' = Handled("popTree", w, p, r)
  /\ UNCHANGED <<activeWs, gapsIn, gapsOut, grab>>

\* the window is closed: window-left-monitor for the monitor it was on
Legacy_WindowClosed(w, p) ==
  /\ Event /\ Settled
  /\ win[w].exists /\ grab # w
  /\ win' = [win EXCEPT ![w] = NoWindow]
  /\ \E r \in {Legacy_popTree(win', w, p)} :
        /\ Apply([r EXCEPT !.fit.fr[w] = NoFrame])
        /\ last' = Handled("popTree", w, p, r)
  /\ UNCHANGED <<activeWs, gapsIn, gapsOut, grab>>

NextLegacy ==
  \/ \E w \in Windows, m \in Monitors : Legacy_WindowEntered(w, m)
  \/ \E w \in Windows, p \in PointerPositions : Legacy_WindowShown(w, p)
  \/ \E w \in Windows, p \in PointerPositions : Legacy_GrabOpBegin(w, p)
  \/ \E w \in Windows, p \in PointerPositions : Legacy_GrabOpEnd(w, p)
  \/ \E w \in Windows, m \in Monitors, p \in PointerPositions : Legacy_WindowLeftMonitor(w, m, p)
  \/ \E w \in Windows, p \in PointerPositions : Legacy_WindowClosed(w, p)
  \/ \E w \in Windows : WindowMinimized(w)
  \/ \E w \in Windows : WindowUnminimized(w)
  \/ \E ws \in Workspaces : WorkspaceSwitched(ws)

SpecLegacy == Init /\ [][NextLegacy]_vars

(***************************************************************************)
(* The life of the App: App.run, release and the host's signals after the  *)
(* release.  release() runs the callbacks the constructor deferred: the    *)
(* handlers of window-created, window-left-monitor, grab-op-begin and      *)
(* grab-op-end are taken off the display and the handler of `changed` off  *)
(* the settings.  The handler a window-created handler connected to a      *)
(* window's `shown` is in no deferred callback: it stays on the window     *)
(* (win[w].hooked) and calls #pushTree of the instance that connected it.  *)
(* The model follows one instance at a time: App.run after a release is    *)
(* followed when no window carries a handler of the released instance.     *)
(***************************************************************************)
\* the members of S in ascending order
RECURSIVE Ascending(_)
Ascending(S) ==
  IF S = {} THEN <<>>
  ELSE LET m == CHOOSE x \in S : \A y \in S : x <= y
       IN <<m>> \o Ascending(S \ {m})

\* a call of App.run or release, within the bound of the model
Call ==
  /\ events < MaxEvents
  /\ events' = events + 1

\* App.release (App.ts:161-164)
App_release ==
  /\ Call
  /\ app = "running"
  /\ app' = "released"
  /\ last' = [NoHandler EXCEPT !.op = "release"]
  /\ UNCHANGED <<heap, forest, win, frame, activeWs, gapsIn, gapsOut, grab>>

\* App.run (App.ts:51-57) with the pointer on monitor cur: it throws while
\* #instance is set, and otherwise runs the constructor, which throws when
\* the fit of #initTree does.
App_run(cur) ==
  /\ Call
  /\ \A w \in Windows : app # "running" => ~win[w].hooked
  /\ IF app = "running"
     THEN /\ last' = [NoHandler EXCEPT !.op = "runRejected", !.cur = cur]
          /\ UNCHANGED <<heap, forest, frame, app>>
     ELSE LET order == Ascending({ w \in Windows : win[w].exists })
              r == initTree(order, win, cur, activeWs, gapsIn, gapsOut, frame)
              c == Collect(r.h, FilledForest)
          IN /\ heap' = c.h
             /\ forest' = c.f
             /\ frame' = r.fit.fr
             /\ app' = IF r.fit.threw THEN "failed" ELSE "running"
             /\ last' = [NoHandler EXCEPT
                           !.op = "run", !.cur = cur,
                           !.fit = IF r.fit.threw THEN "threw" ELSE "ok"]
  /\ UNCHANGED <<win, activeWs, gapsIn, gapsOut, grab>>

\* a signal of the host after the release
Signal ==
  /\ app = "released"
  /\ events < MaxEvents
  /\ events' = events + 1
  /\ app' = app

\* window-created after the release: no handler is connected
Released_WindowCreated(w, m) ==
  /\ Signal /\ Settled
  /\ ~win[w].exists
  /\ win' = [win EXCEPT ![w] = [exists |-> TRUE, ws |-> activeWs, mon |-> m,
                                min |-> FALSE, vis |-> FALSE, hooked |-> FALSE]]
  /\ frame' = [frame EXCEPT ![w] = InitFrame(m)]
  /\ last' = NoHandler
  /\ UNCHANGED <<heap, forest, activeWs, gapsIn, gapsOut, grab>>

\* shown after the release (App.ts:88-93): the handler of a hooked window
\* is still connected
Released_WindowShown(w, p) ==
  /\ Signal
  /\ Pending(w)
  /\ win' = [win EXCEPT ![w].vis = TRUE]
  /\ IF win[w].hooked
     THEN \E r \in {App_pushTree(win', w, p)} :
             Apply(r) /\ last' = Handled("pushTree", w, p, r)
     ELSE /\ last' = NoHandler
          /\ UNCHANGED <<heap, forest, frame>>
  /\ UNCHANGED <<activeWs, gapsIn, gapsOut, grab>>

\* grab-op-begin after the release (App.ts:108)
Released_GrabOpBegin(w) ==
  /\ Signal /\ Settled
  /\ grab = NULL /\ win[w].vis
  /\ grab' = w
  /\ last' = NoHandler
  /\ UNCHANGED <<heap, forest, win, frame, activeWs, gapsIn, gapsOut>>

\* grab-op-end after the release (App.ts:109)
Released_GrabOpEnd(w) ==
  /\ Signal /\ Settled
  /\ grab = w
  /\ grab' = NULL
  /\ last' = NoHandler
  /\ UNCHANGED <<heap, forest, win, frame, activeWs, gapsIn, gapsOut>>

\* window-left-monitor after the release (App.ts:107)
Released_WindowLeftMonitor(w, m) ==
  /\ Signal /\ Settled
  /\ win[w].exists /\ win[w].mon # m
  /\ win' = [win EXCEPT ![w].mon = m]
  /\ last' = NoHandler
  /\ UNCHANGED <<heap, forest, frame, activeWs, gapsIn, gapsOut, grab>>

\* settings changed after the release (App.ts:112)
Released_SettingsChanged(gIn, gOut) ==
  /\ Signal /\ Settled
  /\ (gIn # gapsIn /\ gOut = gapsOut) \/ (gIn = gapsIn /\ gOut # gapsOut)
  /\ gapsIn' = gIn
  /\ gapsOut' = gOut
  /\ last' = NoHandler
  /\ UNCHANGED <<heap, forest, win, frame, activeWs, grab>>

NextLife ==
  \/ App_release
  \/ \E cur \in Monitors : App_run(cur)
  \/ \E w \in Windows, m \in Monitors : Released_WindowCreated(w, m)
  \/ \E w \in Windows, p \in PointerPositions : Released_WindowShown(w, p)
  \/ \E w \in Windows : Released_GrabOpBegin(w)
  \/ \E w \in Windows : Released_GrabOpEnd(w)
  \/ \E w \in Windows, m \in Monitors : Released_WindowLeftMonitor(w, m)
  \/ \E gIn \in Gaps, gOut \in Gaps : Released_SettingsChanged(gIn, gOut)
  \/ \E w \in Windows, m \in Monitors : WindowCreated(w, m)
  \/ \E w \in Windows, p \in PointerPositions : WindowShown(w, p)
  \/ \E w \in Windows, p \in PointerPositions : GrabOpBegin(w, p)
  \/ \E w \in Windows, p \in PointerPositions : GrabOpEnd(w, p)
  \/ \E w \in Windows, m \in Monitors, p \in PointerPositions : WindowLeftMonitor(w, m, p)
  \/ \E w \in Windows, p \in PointerPositions : WindowClosed(w, p)
  \/ \E w \in Windows : WindowMinimized(w)
  \/ \E w \in Windows : WindowUnminimized(w)
  \/ \E ws \in Workspaces : WorkspaceSwitched(ws)
  \/ \E gIn \in Gaps, gOut \in Gaps, p \in PointerPositions : SettingsChanged(gIn, gOut, p)

SpecLife == Init /\ [][NextLife]_vars

(***************************************************************************)
(* A workspace the host adds after the construction.  #tree has the rows   *)
(* #initTree made, one per workspace there was (App.ts:118-123), and no    *)
(* handler is connected to a signal of the workspace manager or to the     *)
(* monitors-changed event of the DesktopManager (App.ts:86-112).  On the   *)
(* added workspace `this.#tree[index]` is undefined and a handler throws a *)
(* TypeError where it indexes it with the monitor.                         *)
(***************************************************************************)
\* the index of the workspace the host appends
AddedWorkspace == Len(WorkspaceNames)

\* what `last` records of a handler that threw before it reached a tree
Threw(op, w, p) ==
  [NoHandler EXCEPT !.op = op, !.win = w, !.cur = CurrentMonitor(p)]

\* the host appends a workspace and the user switches to it
WorkspaceAdded ==
  /\ Event /\ Settled
  /\ grab = NULL /\ activeWs \in Workspaces
  /\ activeWs' = AddedWorkspace
  /\ win' = [w \in Windows |-> [win[w] EXCEPT !.vis = FALSE]]
  /\ last' = NoHandler
  /\ UNCHANGED <<heap, forest, frame, gapsIn, gapsOut, grab>>

\* window-created on the added workspace (App.ts:86-95)
Added_WindowCreated(w, m) ==
  /\ Event /\ Settled
  /\ activeWs = AddedWorkspace
  /\ ~win[w].exists
  /\ win' = [win EXCEPT ![w] = [exists |-> TRUE, ws |-> activeWs, mon |-> m,
                                min |-> FALSE, vis |-> FALSE, hooked |-> TRUE]]
  /\ frame' = [frame EXCEPT ![w] = InitFrame(m)]
  /\ last' = NoHandler
  /\ UNCHANGED <<heap, forest, activeWs, gapsIn, gapsOut, grab>>

\* shown on the added workspace: #pushTree throws at App.ts:173
Added_WindowShown(w, p) ==
  /\ Event
  /\ activeWs = AddedWorkspace
  /\ Pending(w)
  /\ win' = [win EXCEPT ![w].vis = TRUE]
  /\ last' = IF win[w].hooked THEN Threw("pushTree", w, p) ELSE NoHandler
  /\ UNCHANGED <<heap, forest, frame, activeWs, gapsIn, gapsOut, grab>>

\* window-left-monitor while the added workspace is active: #popTree
\* throws at App.ts:186
Added_WindowLeftMonitor(w, m, p) ==
  /\ Event /\ Settled
  /\ activeWs = AddedWorkspace
  /\ win[w].exists /\ win[w].mon # m
  /\ win' = [win EXCEPT ![w].mon = m]
  /\ last' = Threw("popTree", w, p)
  /\ UNCHANGED <<heap, forest, frame, activeWs, gapsIn, gapsOut, grab>>

\* settings changed while the added workspace is active:
\* #onSettingsGeneralChanged throws at App.ts:203
Added_SettingsChanged(gIn, gOut, p) ==
  /\ Event /\ Settled
  /\ activeWs = AddedWorkspace
  /\ (gIn # gapsIn /\ gOut = gapsOut) \/ (gIn = gapsIn /\ gOut # gapsOut)
  /\ gapsIn' = gIn
  /\ gapsOut' = gOut
  /\ last' = Threw("settingsChanged", NULL, p)
  /\ UNCHANGED <<heap, forest, win, frame, activeWs, grab>>

\* the user switches from the added workspace to workspace ws
Added_WorkspaceSwitched(ws) ==
  /\ Event /\ Settled
  /\ activeWs = AddedWorkspace
  /\ activeWs' = ws
  /\ win' = [w \in Windows |-> [win[w] EXCEPT !.vis = FALSE]]
  /\ last' = NoHandler
  /\ UNCHANGED <<heap, forest, frame, gapsIn, gapsOut, grab>>

NextAdded ==
  \/ WorkspaceAdded
  \/ \E w \in Windows, m \in Monitors : Added_WindowCreated(w, m)
  \/ \E w \in Windows, p \in PointerPositions : Added_WindowShown(w, p)
  \/ \E w \in Windows, m \in Monitors, p \in PointerPositions : Added_WindowLeftMonitor(w, m, p)
  \/ \E gIn \in Gaps, gOut \in Gaps, p \in PointerPositions : Added_SettingsChanged(gIn, gOut, p)
  \/ \E ws \in Workspaces : Added_WorkspaceSwitched(ws)
  \/ activeWs \in Workspaces /\ \E w \in Windows, m \in Monitors : WindowCreated(w, m)
  \/ activeWs \in Workspaces /\ \E w \in Windows, p \in PointerPositions : WindowShown(w, p)
  \/ activeWs \in Workspaces /\ \E w \in Windows, p \in PointerPositions : GrabOpBegin(w, p)
  \/ activeWs \in Workspaces /\ \E w \in Windows, p \in PointerPositions : GrabOpEnd(w, p)
  \/ activeWs \in Workspaces /\ \E w \in Windows, m \in Monitors, p \in PointerPositions : WindowLeftMonitor(w, m, p)
  \/ activeWs \in Workspaces /\ \E w \in Windows, p \in PointerPositions : WindowClosed(w, p)
  \/ activeWs \in Workspaces /\ \E w \in Windows : WindowMinimized(w)
  \/ activeWs \in Workspaces /\ \E w \in Windows : WindowUnminimized(w)
  \/ activeWs \in Workspaces /\ \E ws \in Workspaces : WorkspaceSwitched(ws)
  \/ activeWs \in Workspaces /\ \E gIn \in Gaps, gOut \in Gaps, p \in PointerPositions : SettingsChanged(gIn, gOut, p)

SpecAdded == Init /\ [][NextAdded]_vars

(***************************************************************************)
(* The slots of the forest.                                                *)
(***************************************************************************)
Slots == Workspaces \X Monitors
RootOf(s) == forest[s[1]][s[2]]

\* the pointer positions on monitor m
PointsOn(m) == { p \in PointerPositions : CurrentMonitor(p) = m }

(***************************************************************************)
(* C1 -- pushTile of a tile whose id is not in the tree, at a point inside *)
(* the work area (a point on a split line included), adds exactly one Tile *)
(* leaf.  Stated of every tree the forest holds: the push of every new id  *)
(* at every pointer position inside the work area of the slot's monitor.   *)
(***************************************************************************)
C1_PushAddsOneLeaf ==
  app = "running" =>
    \A s \in Slots : \A p \in PointsOn(s[2]) : \A id \in Windows :
      LET area == workArea(s[2], gapsIn, gapsOut)
          r == pushTree(heap, RootOf(s), PointOf(p), Tile(id), area)
      IN (/\ pointInRectangle(PointOf(p), area)
          /\ id \notin TileIds(heap, RootOf(s))
          /\ r.st = "ok")
         => LeafCount(r.h, RootOf(s)) = LeafCount(heap, RootOf(s)) + 1

(***************************************************************************)
(* C2 -- in every tree of the forest the Tile.id values of the leaves are  *)
(* pairwise distinct.                                                      *)
(***************************************************************************)
C2_TileIdsUnique ==
  app = "running" => \A s \in Slots : UniqueIds(heap, RootOf(s))

(***************************************************************************)
(* C3 -- every node of every slot's tree is a Tile without children, a     *)
(* Container with both children, or a Container without children, the last *)
(* only at the root of the slot.                                           *)
(***************************************************************************)
C3_NodeShapes ==
  app = "running" => \A s \in Slots : ValidShape(heap, RootOf(s))

(***************************************************************************)
(* C4 -- for a valid tree and an id present in it, the tree removeId       *)
(* returns holds no Tile with that id and has exactly one leaf fewer; when *)
(* the id was the sole tile, the returned root is an empty Container.      *)
(* Stated of every valid tree the forest holds and every id in it.         *)
(***************************************************************************)
C4_RemoveDropsOneLeaf ==
  app = "running" =>
    \A s \in Slots : \A id \in TileIds(heap, RootOf(s)) :
      LET r == removeId(heap, RootOf(s), id)
      IN ValidTree(heap, RootOf(s)) =>
           /\ id \notin TileIds(r.h, r.root)
           /\ LeafCount(r.h, r.root) = LeafCount(heap, RootOf(s)) - 1
           /\ LeafCount(heap, RootOf(s)) = 1 => EmptyContainer(r.h[r.root])

\* the pop handler has removed a window's tile from a valid tree
C4_Witness ==
  /\ last.op = "popTree" /\ last.present /\ last.valid
  /\ last.delta = 0 - 1

(***************************************************************************)
(* C5 -- removeId of an id no Tile of the tree carries returns the root it *)
(* was given and leaves every node as it was; removeId has no path that    *)
(* throws.  Stated of every tree the forest holds and every absent id.     *)
(***************************************************************************)
C5_RemoveAbsentIsNoOp ==
  app = "running" =>
    \A s \in Slots : \A id \in Windows \ TileIds(heap, RootOf(s)) :
      removeId(heap, RootOf(s), id) = [h |-> heap, root |-> RootOf(s)]

\* the pop handler has run for a window the slot's tree did not hold, and
\* the tree holds tiles
C5_Witness ==
  /\ last.op = "popTree" /\ ~last.present
  /\ LeafCount(heap, forest[activeWs][last.cur]) >= 1

(***************************************************************************)
(* C6 -- the pop handler stores the node removeId returns in the slot      *)
(* before the fit: when the window's tile is a child of the root, the tree *)
(* the slot holds after the handler has no Tile of that window.  Stated of *)
(* #popTree of part_000, for every window and pointer position, in every   *)
(* state the handlers of part_000 reach.                                   *)
(***************************************************************************)
\* a populated Container at t with a Tile of this id as a child
ChildOfRoot(h, t, id) ==
  /\ IsContainer(h[t]) /\ h[t].left # NULL /\ h[t].right # NULL
  /\ \/ IsTile(h[h[t].left]) /\ h[h[t].left].id = id
     \/ IsTile(h[h[t].right]) /\ h[h[t].right].id = id

C6_PopStoresReturnedRoot ==
  app = "running" =>
    \A w \in Windows : \A p \in PointerPositions :
      LET cur == CurrentMonitor(p)
          r == Legacy_popTree(win, w, p)
      IN ChildOfRoot(heap, forest[activeWs][cur], w)
           => w \notin TileIds(r.h, r.f[activeWs][cur])

(***************************************************************************)
(* C7 -- when no window waits to be shown and no grab is in progress, in   *)
(* every slot a pre-order walk of the tree visits every node once and the  *)
(* number of Tile leaves is the number of eligible windows of the slot.    *)
(***************************************************************************)
\* the nodes a pre-order walk of the tree at t visits
RECURSIVE Preorder(_, _)
Preorder(h, t) ==
  IF t = NULL THEN <<>>
  ELSE <<t>> \o Preorder(h, h[t].left) \o Preorder(h, h[t].right)

C7_LeavesAreEligibleWindows ==
  (app = "running" /\ Settled /\ grab = NULL) =>
    \A s \in Slots :
      /\ Len(Preorder(heap, RootOf(s))) = Cardinality(Cells(heap, RootOf(s)))
      /\ LeafCount(heap, RootOf(s))
           = Cardinality(EligibleWindows(win, s[1], s[2]))

(***************************************************************************)
(* C8 -- for a tree of the forest and a work area that every split of the  *)
(* tree halves into whole pixels, when the fit pass of the slot finds the  *)
(* window of every Tile, the rectangles fit assigns to the Tile leaves lie *)
(* inside the work area, do not overlap pairwise, and their areas add up   *)
(* to the area of the work area.                                           *)
(***************************************************************************)
\* every populated Container of the tree splits its rectangle into halves
\* of whole pixels
RECURSIVE ExactHalves(_, _, _)
ExactHalves(h, t, area) ==
  LET node == h[t] IN
  IF IsContainer(node) /\ node.left # NULL /\ node.right # NULL
  THEN LET s == splitArea(area, node)
       IN /\ s.left.width % Scale = 0 /\ s.left.height % Scale = 0
          /\ ExactHalves(h, node.left, s.left)
          /\ ExactHalves(h, node.right, s.right)
  ELSE TRUE

\* The rectangle #fitTree hands to #fit for each Tile leaf: the fit of the
\* tree with every leaf standing for a window of its own (the window of
\* the leaf at cell a has id a), no spacing, and frames that differ from
\* every target.
LeafCells(h, t) == { a \in Cells(h, t) : IsTile(h[a]) }
LeafRects(h, t, area) ==
  fitTree([a \in Addr |-> IF IsTile(h[a]) THEN [h[a] EXCEPT !.id = a]
                          ELSE h[a]],
          t, area, Addr, 0,
          FitStart([a \in Addr |-> Rect(0 - Scale, 0 - Scale, 0, 0)])).fr

Inside(r, area) ==
  /\ r.x >= area.x /\ r.x + r.width <= area.x + area.width
  /\ r.y >= area.y /\ r.y + r.height <= area.y + area.height

Overlap(r, q) ==
  /\ r.x < q.x + q.width /\ q.x < r.x + r.width
  /\ r.y < q.y + q.height /\ q.y < r.y + r.height

RECURSIVE SumAreas(_, _)
SumAreas(rects, cells) ==
  IF cells = {} THEN 0
  ELSE LET a == CHOOSE c \in cells : TRUE
       IN rects[a].width * rects[a].height + SumAreas(rects, cells \ {a})

TilesExactly(h, t, area) ==
  LET rects == LeafRects(h, t, area)
      cells == LeafCells(h, t)
  IN /\ \A a \in cells : Inside(rects[a], area)
     /\ \A a, b \in cells : a # b => ~Overlap(rects[a], rects[b])
     /\ SumAreas(rects, cells) = area.width * area.height

C8_FitTilesWorkArea ==
  app = "running" =>
    \A s \in Slots :
      LET area == workArea(s[2], gapsIn, gapsOut)
      IN (/\ LeafCount(heap, RootOf(s)) >= 1
          /\ ExactHalves(heap, RootOf(s), area)
          /\ ~autotile(heap, RootOf(s), s[2], s[1], win, gapsIn, gapsOut,
                       frame).threw)
         => TilesExactly(heap, RootOf(s), area)

(***************************************************************************)
(* C9 -- a second fit pass right after the fit pass of a handler, on the   *)
(* same tree with the same settings and windows, leaves every window's     *)
(* frame rectangle as the first pass left it, whatever the spacing.        *)
(***************************************************************************)
\* the last event's handler ended with a fit pass that did not throw
HandlerFitted ==
  /\ last.op \in {"pushTree", "popTree", "settingsChanged"}
  /\ last.fit = "ok"

\* the fit pass once more, on the state the handler left
SecondFit ==
  autotile(heap, forest[activeWs][last.cur], last.cur, activeWs, win, gapsIn,
           gapsOut, frame)

C9_SecondFitKeepsFrames ==
  HandlerFitted => ~SecondFit.threw /\ SecondFit.fr = frame

\* a handler has fitted a tree of two tiles or more with a spacing
C9_Witness ==
  /\ HandlerFitted /\ gapsIn > 0
  /\ LeafCount(heap, forest[activeWs][last.cur]) >= 2

(***************************************************************************)
(* C10 -- in that second fit pass #fit returns early for every Tile: no    *)
(* window is unmaximized, moved, resized or animated, whatever the         *)
(* spacing.                                                                *)
(***************************************************************************)
C10_SecondFitShortCircuits ==
  HandlerFitted => SecondFit.moved = {}

(***************************************************************************)
(* C11 -- #splitArea: the left rectangle keeps the origin of the parent    *)
(* and gets the constraint, or half the split dimension when there is no   *)
(* constraint, as its size along the split dimension; the right rectangle  *)
(* gets the remainder and is offset by the left size; both keep the size   *)
(* of the parent on the other axis.  Stated for the work areas of the      *)
(* monitors under the settings of the state and the rectangle of the       *)
(* example, both orientations, and no constraint or one of 0..MaxConstraint*)
(* and 300 pixels.                                                         *)
(***************************************************************************)
ExampleArea == Rect(0, 0, Px(1000), Px(600))
SplitAreas ==
  { workArea(m, gapsIn, gapsOut) : m \in Monitors } \cup {ExampleArea}
Splits == {"Horizontal", "Vertical"}
Constraints == { Px(c) : c \in 0 .. MaxConstraint } \cup {Px(300)}

\* the Container the code sees: `constraint` is undefined when absent, and
\* the code reads it only through its truthiness
ContainerWith(split, present, c) ==
  [Container(split) EXCEPT !.constraint = IF present THEN c ELSE 0]

\* what the statement gives for the left size `first`
SplitAsStated(area, split, first) ==
  IF split = "Horizontal"
  THEN [left |-> Rect(area.x, area.y, area.width, first),
        right |-> Rect(area.x, area.y + first, area.width,
                       area.height - first)]
  ELSE [left |-> Rect(area.x, area.y, first, area.height),
        right |-> Rect(area.x + first, area.y, area.width - first,
                       area.height)]

SplitAgrees(area, split, present, c) ==
  LET s == splitArea(area, ContainerWith(split, present, c))
      whole == IF split = "Horizontal" THEN area.height ELSE area.width
      e == SplitAsStated(area, split, IF present THEN c ELSE Half(whole))
  IN s.left = e.left /\ s.right = e.right

C11_Example ==
  /\ splitArea(ExampleArea, ContainerWith("Vertical", FALSE, 0)).left
       = Rect(0, 0, Px(500), Px(600))
  /\ splitArea(ExampleArea, ContainerWith("Vertical", FALSE, 0)).right
       = Rect(Px(500), 0, Px(500), Px(600))
  /\ splitArea(ExampleArea, ContainerWith("Vertical", TRUE, Px(300))).left
       = Rect(0, 0, Px(300), Px(600))
  /\ splitArea(ExampleArea, ContainerWith("Vertical", TRUE, Px(300))).right
       = Rect(Px(300), 0, Px(700), Px(600))

ExampleRaw == Rect(0, 0, Px(1920), Px(1080))
RawAreas ==
  { RawWorkArea(m) : m \in Monitors }
    \cup {Rect(Px(2), Px(1), Px(5), Px(3)), ExampleRaw}
InsetValues == ((0 - 1) .. MaxInset) \cup {10, 20}

\* an inset side of `px` pixels clamped to [0, floor(dimension / 2)]
ClampedSide(px, dimension) ==
  LET half == (dimension \div Scale) \div 2
  IN Px(IF px < 0 THEN 0 ELSE IF px > half THEN half ELSE px)

WorkAreaAsStated(raw, spacing, inset) ==
  LET top == ClampedSide(inset, raw.height)
      bottom == ClampedSide(inset, raw.height)
      left == ClampedSide(inset, raw.width)
      right == ClampedSide(inset, raw.width)
  IN Rect(raw.x + left - Px(spacing), raw.y + top - Px(spacing),
          raw.width - left - right + 2 * Px(spacing),
          raw.height - top - bottom + 2 * Px(spacing))

\* the formula on every input tried, and the example
WorkAreaAgrees ==
  /\ \A raw \in RawAreas : \A spacing \in InsetValues : \A inset \in InsetValues :
       workAreaOf(raw, spacing, inset) = WorkAreaAsStated(raw, spacing, inset)
  /\ workAreaOf(ExampleRaw, 10, 20) = Rect(Px(10), Px(10), Px(1900), Px(1060))

C12_WorkAreaFormula ==
  /\ WorkAreaAgrees
  /\ \A m \in Monitors :
       workArea(m, gapsIn, gapsOut)
         = WorkAreaAsStated(RawWorkArea(m), gapsIn, gapsOut)

\* the settings handler has fitted a tile against a work area with an inset
\* and a spacing
C12_Witness ==
  /\ last.op = "settingsChanged" /\ last.fit = "ok"
  /\ gapsIn > 0 /\ gapsOut > 0
  /\ LeafCount(heap, forest[activeWs][last.cur]) >= 1

(***************************************************************************)
(* The tree #initTree leaves in a slot, seen in the state after the        *)
(* construction.                                                           *)
(***************************************************************************)
\* the App has been constructed and no event has come yet
Built == events = 0 /\ app = "running"

\* workspace.list_windows() at the construction: the windows in the order
\* of their ids
BuildOrder == [i \in 1 .. Cardinality({ w \in Windows : win[w].exists }) |-> i]

\* the windows the build of slot s loops over
BuildWindows(s) == ListWindows(BuildOrder, win, s[1], s[2])

\* the splits of the Containers from t down the right children
RECURSIVE Spine(_, _)
Spine(h, t) ==
  IF IsContainer(h[t]) /\ h[t].right # NULL
  THEN <<h[t].split>> \o Spine(h, h[t].right)
  ELSE <<>>

(***************************************************************************)
(* C13 -- after the initial build every slot's tree has one Tile leaf per  *)
(* eligible window of the slot and no other leaf, in the order of the      *)
(* window list; no window leaves an empty Container at the root and one    *)
(* window a Tile at the root.                                              *)
(***************************************************************************)
C13_BuildLeavesAreWindows ==
  Built =>
    \A s \in Slots :
      /\ Leaves(heap, RootOf(s)) = BuildWindows(s)
      /\ Len(BuildWindows(s)) = 0 => EmptyContainer(heap[RootOf(s)])
      /\ Len(BuildWindows(s)) = 1 => IsTile(heap[RootOf(s)])

(***************************************************************************)
(* C14 -- in the build, the Container created when the window at index i   *)
(* splits the current leaf is Horizontal on an even i if the work area is  *)
(* wider than tall and Vertical otherwise, and the opposite on an odd i.   *)
(* Stated of the slots the build has put windows in: the Container at      *)
(* depth i - 1 of the right spine is the one created at index i.           *)
(***************************************************************************)
SplitAsStatedAt(i, area) ==
  IF (i % 2 = 0) = (area.width > area.height) THEN "Horizontal"
  ELSE "Vertical"

C14_BuildSplitAlternates ==
  Built =>
    \A s \in Slots :
      Len(BuildWindows(s)) >= 2 =>
        \A i \in 1 .. Len(Spine(heap, RootOf(s))) :
          Spine(heap, RootOf(s))[i]
            = SplitAsStatedAt(i, workArea(s[2], gapsIn, gapsOut))

(***************************************************************************)
(* C15 -- the build of a slot with three windows on a work area wider than *)
(* tall has a Vertical Container at the root, and the build is a chain to  *)
(* the right: the left child of every Container is a Tile.                 *)
(***************************************************************************)
Wide(area) == area.width > area.height

C15_BuildIsRightChain ==
  Built =>
    \A s \in Slots :
      Len(BuildWindows(s)) >= 2 =>
        /\ \A a \in Cells(heap, RootOf(s)) :
             (IsContainer(heap[a]) /\ heap[a].left # NULL)
               => IsTile(heap[heap[a].left])
        /\ (Len(BuildWindows(s)) = 3
              /\ Wide(workArea(s[2], gapsIn, gapsOut)))
             => heap[RootOf(s)].split = "Vertical"

\* three windows built on the monitor that is wider than tall
C15_Witness ==
  /\ Built
  /\ \E s \in Slots :
       /\ Len(BuildWindows(s)) = 3
       /\ Wide(workArea(s[2], gapsIn, gapsOut))
       /\ LeafCount(heap, RootOf(s)) = 3

(***************************************************************************)
(* C16 -- the forest holds a tree of its own for every (workspace,         *)
(* monitor): a push into or a pop from the tree of one slot leaves the     *)
(* tree of every other slot as it was.  Stated of #pushTree and #popTree   *)
(* for every window and pointer position, in every state.                  *)
(***************************************************************************)
\* the tree at t as a value: its nodes in pre-order, each with its payload
\* and the children it has
RECURSIVE TreeValue(_, _)
TreeValue(h, t) ==
  IF t = NULL THEN <<>>
  ELSE <<[kind |-> h[t].kind, id |-> h[t].id, split |-> h[t].split,
          constraint |-> h[t].constraint,
          hasLeft |-> h[t].left # NULL, hasRight |-> h[t].right # NULL]>>
       \o TreeValue(h, h[t].left) \o TreeValue(h, h[t].right)

OtherSlotsKept(r, cur) ==
  \A s \in Slots \ {<<activeWs, cur>>} :
    TreeValue(r.h, r.f[s[1]][s[2]]) = TreeValue(heap, RootOf(s))

C16_SlotsIndependent ==
  app = "running" =>
    \A w \in Windows : \A p \in PointerPositions :
      /\ OtherSlotsKept(App_pushTree(win, w, p), CurrentMonitor(p))
      /\ OtherSlotsKept(App_popTree(win, w, p), CurrentMonitor(p))

(***************************************************************************)
(* C17 -- pushTree with a point outside the work area of the slot leaves   *)
(* the tree as it was, every node with its payload and children, and does  *)
(* not throw; for every tree, the empty root included.  Stated of every    *)
(* tree of the forest, every pointer position outside the work area of the *)
(* slot's monitor and every id.                                            *)
(***************************************************************************)
C17_PushOutsideIsNoOp ==
  app = "running" =>
    \A s \in Slots : \A p \in PointerPositions : \A id \in Windows :
      LET area == workArea(s[2], gapsIn, gapsOut)
      IN ~pointInRectangle(PointOf(p), area)
           => pushTree(heap, RootOf(s), PointOf(p), Tile(id), area)
                = [h |-> heap, st |-> "ok"]

\* the push handler has run with the pointer outside the work area of its
\* monitor, on a tree with tiles
C17_Witness ==
  /\ last.op = "pushTree" /\ ~last.inside /\ last.delta = 0
  /\ LeafCount(heap, forest[activeWs][last.cur]) >= 1

(***************************************************************************)
(* C18 -- pushTree keeps the root node and every tile there was: the       *)
(* leaves before the push are the leaves after it without the inserted     *)
(* ones, in the same order, and every Container there was is a Container   *)
(* with the same split after it.  Stated of every tree of the forest,      *)
(* every pointer position and every id.                                    *)
(***************************************************************************)
\* `before` is `after` with some occurrences of id taken out
RECURSIVE WithoutSome(_, _, _)
WithoutSome(before, after, id) ==
  IF after = <<>> THEN before = <<>>
  ELSE \/ /\ before # <<>> /\ Head(after) = Head(before)
          /\ WithoutSome(Tail(before), Tail(after), id)
       \/ /\ Head(after) = id
          /\ WithoutSome(before, Tail(after), id)

PushKeepsTree(h, t, r, id) ==
  /\ r.h[t].kind # "Free"
  /\ WithoutSome(Leaves(h, t), Leaves(r.h, t), id)
  /\ \A a \in Cells(h, t) :
       IsContainer(h[a]) /\ h[a].left # NULL
         => IsContainer(r.h[a]) /\ r.h[a].split = h[a].split

C18_PushKeepsTiles ==
  app = "running" =>
    \A s \in Slots : \A p \in PointsOn(s[2]) : \A id \in Windows :
      LET r == pushTree(heap, RootOf(s), PointOf(p), Tile(id),
                        workArea(s[2], gapsIn, gapsOut))
      IN r.st = "ok" => PushKeepsTree(heap, RootOf(s), r, id)

\* the push handler has added a tile to a tree that had tiles
C18_Witness ==
  /\ last.op = "pushTree" /\ last.delta >= 1
  /\ LeafCount(heap, forest[activeWs][last.cur]) > last.delta

(***************************************************************************)
(* C19 -- after a fit, the windows of the two Tile children of a Container *)
(* are 2 * spacing apart along the split axis: from the far edge of the    *)
(* left window to the near edge of the right window.  Stated of the tree   *)
(* the constructor or a handler has just fitted.                           *)
(***************************************************************************)
\* the distance from the far edge of frame `l` to the near edge of frame `r`
Gap(split, l, r) ==
  IF split = "Horizontal" THEN r.y - (l.y + l.height)
  ELSE r.x - (l.x + l.width)

\* the Containers of the tree at t whose children are both Tiles
TilePairs(h, t) ==
  { a \in Cells(h, t) :
      /\ IsContainer(h[a]) /\ h[a].left # NULL /\ h[a].right # NULL
      /\ IsTile(h[h[a].left]) /\ IsTile(h[h[a].right]) }

\* a fit pass has completed on the tree of the pointer's monitor: the one
\* of the constructor or the one of the last handler
Fitted == (Built \/ HandlerFitted) /\ last.fit = "ok"

C19_GapIsTwiceSpacing ==
  Fitted =>
    \A a \in TilePairs(heap, forest[activeWs][last.cur]) :
      Gap(heap[a].split, frame[heap[heap[a].left].id],
          frame[heap[heap[a].right].id]) = 2 * getSpacing(gapsIn)

(***************************************************************************)
(* C20 -- a sole tile's window has, after the fit, the raw work area of    *)
(* the monitor shrunk by the clamped inset as its frame, whatever the      *)
(* spacing: {raw.x + left, raw.y + top, raw.width - left - right,          *)
(* raw.height - top - bottom}.  Stated of the tree a handler has just      *)
(* fitted.                                                                 *)
(***************************************************************************)
InsetArea(m, gOut) ==
  LET raw == RawWorkArea(m)
      v == ClampedSide(gOut, raw.height)
      u == ClampedSide(gOut, raw.width)
  IN Rect(raw.x + u, raw.y + v, raw.width - u - u, raw.height - v - v)

C20_SoleTileFillsInsetArea ==
  HandlerFitted =>
    LET root == heap[forest[activeWs][last.cur]]
    IN IsTile(root) => frame[root.id] = InsetArea(last.cur, gapsOut)

(***************************************************************************)
(* C21.  At most one App instance exists at any time: App.run throws when  *)
(* an instance exists and has not been released, and leaves it as it is;   *)
(* App.run after release() succeeds and creates a new instance.            *)
(***************************************************************************)
RunCalled == events' = events + 1 /\ last'.op \in {"run", "runRejected"}

C21_RunAfterReleaseSucceeds ==
  [][RunCalled =>
       /\ app = "running" =>
            /\ last'.op = "runRejected"
            /\ app' = "running"
            /\ UNCHANGED <<heap, forest, frame>>
       /\ app = "released" => last'.op = "run" /\ app' = "running"]_vars

(***************************************************************************)
(* C22.  release() cancels every event subscription the instance created:  *)
(* after release() no signal of the host (window-created, a window's       *)
(* shown, grab-op-begin, grab-op-end, window-left-monitor, settings        *)
(* changed) runs a handler of the released instance, so the forest is not  *)
(* mutated and no fit is issued while the instance stays released.         *)
(***************************************************************************)
C22_ReleaseCancelsHandlers ==
  [][app = "released" /\ app' = "released" =>
       /\ last'.op = "none"
       /\ last'.fit = "none"
       /\ UNCHANGED <<heap, forest>>]_vars

(***************************************************************************)
(* C23.  When pushTree splits a Tile node, the new tile is in the half of  *)
(* the node's rectangle that contains the point and the tile there was in  *)
(* the other half, the left half when the point is in both; a fit of the   *)
(* tree after the push against the same work area gives the new tile a     *)
(* rectangle that contains the point.  Stated of every tree of the forest, *)
(* every pointer position on its monitor and every id.                     *)
(***************************************************************************)
\* the Tile nodes of tree t in heap h that are Containers with two children
\* in heap g: the nodes a push from h to g has split
SplitTiles(h, g, t) ==
  { a \in Cells(h, t) : IsTile(h[a]) /\ IsContainer(g[a]) /\ g[a].left # NULL }

\* the rectangle the fit walk computes for each Tile of tree t: the pairs
\* of a Tile's cell and the area #fitTree hands to #fit for it
RECURSIVE TileAreas(_, _, _)
TileAreas(h, t, area) ==
  IF IsTile(h[t]) THEN {<<t, area>>}
  ELSE IF IsContainer(h[t]) /\ h[t].left # NULL /\ h[t].right # NULL
  THEN LET s == splitArea(area, h[t])
       IN TileAreas(h, h[t].left, s.left) \cup TileAreas(h, h[t].right, s.right)
  ELSE {}

PlacedAtPoint(h, t, r, point, id, area) ==
  \A before \in TileAreas(h, t, area) :
    before[1] \in SplitTiles(h, r.h, t) =>
      LET a == before[1]
          halves == splitArea(before[2], r.h[a])
          new == IF pointInRectangle(point, halves.left) THEN r.h[a].left
                 ELSE r.h[a].right
          old == IF new = r.h[a].left THEN r.h[a].right ELSE r.h[a].left
      IN /\ r.h[new] = Tile(id)
         /\ r.h[old] = Tile(h[a].id)
         /\ \A after \in TileAreas(r.h, t, area) :
              after[1] = new => pointInRectangle(point, after[2])

C23_NewTileAtPoint ==
  app = "running" =>
    \A s \in Slots : \A p \in PointsOn(s[2]) : \A id \in Windows :
      LET area == workArea(s[2], gapsIn, gapsOut)
          r == pushTree(heap, RootOf(s), PointOf(p), Tile(id), area)
      IN r.st = "ok" =>
           PlacedAtPoint(heap, RootOf(s), r, PointOf(p), id, area)

\* the push handler has split a Tile of a tree with two or more tiles and
\* put the new tile into the right half
C23_Witness ==
  /\ last.op = "pushTree" /\ last.delta = 1 /\ last.inside /\ last.fit = "ok"
  /\ ~last.present
  /\ \E a \in Cells(heap, forest[activeWs][last.cur]) :
       /\ IsContainer(heap[a]) /\ heap[a].right # NULL
       /\ heap[heap[a].right] = Tile(last.win)
       /\ IsTile(heap[heap[a].left])
  /\ LeafCount(heap, forest[activeWs][last.cur]) >= 3

(***************************************************************************)
(* C24.  When pushTree splits a Tile node that occupies the rectangle R,   *)
(* the Container it creates is Horizontal if R is taller than wide and     *)
(* Vertical otherwise, a square R included, and it has no constraint.      *)
(***************************************************************************)
SplitByAspect(h, t, r, area) ==
  \A before \in TileAreas(h, t, area) :
    before[1] \in SplitTiles(h, r.h, t) =>
      /\ r.h[before[1]].split =
           IF before[2].height > before[2].width THEN "Horizontal"
           ELSE "Vertical"
      /\ r.h[before[1]].constraint = 0

C24_SplitFollowsAspect ==
  app = "running" =>
    \A s \in Slots : \A p \in PointsOn(s[2]) : \A id \in Windows :
      LET area == workArea(s[2], gapsIn, gapsOut)
          r == pushTree(heap, RootOf(s), PointOf(p), Tile(id), area)
      IN r.st = "ok" => SplitByAspect(heap, RootOf(s), r, area)

\* the push handler has split a Tile that occupied a square: the two tiles
\* of a Vertical Container are each half as wide as tall
C24_Witness ==
  /\ last.op = "pushTree" /\ last.delta = 1 /\ last.inside /\ ~last.present
  /\ \E pr \in TileAreas(heap, forest[activeWs][last.cur],
                         workArea(last.cur, gapsIn, gapsOut)) :
       /\ heap[pr[1]] = Tile(last.win)
       /\ pr[2].width + pr[2].width = pr[2].height
       /\ \E a \in Cells(heap, forest[activeWs][last.cur]) :
            /\ IsContainer(heap[a]) /\ heap[a].split = "Vertical"
            /\ pr[1] \in {heap[a].left, heap[a].right}
            /\ IsTile(heap[heap[a].left]) /\ IsTile(heap[heap[a].right])

(***************************************************************************)
(* C25.  The push and pop handlers work on the tree of the slot the event  *)
(* affects: after window-left-monitor the tree of the monitor the window   *)
(* left has no tile of the window, and a shown or released window whose    *)
(* handler inserted a tile has a tile in the tree of its own workspace and *)
(* monitor, wherever the pointer is and whichever workspace is active.     *)
(***************************************************************************)
\* the step is window-left-monitor for window w
LeftMonitor(w) ==
  /\ last'.op = "popTree" /\ last'.win = w
  /\ win[w].exists /\ win'[w].exists /\ win'[w].mon # win[w].mon

\* the step is a push handler that inserted a tile of window w
Inserted(w) ==
  /\ last'.op = "pushTree" /\ last'.win = w /\ last'.delta >= 1

C25_HandlersUseAffectedSlot ==
  [][\A w \in Windows :
       /\ LeftMonitor(w) =>
            w \notin TileIds(heap', forest'[win[w].ws][win[w].mon])
       /\ Inserted(w) =>
            w \in TileIds(heap', forest'[win'[w].ws][win'[w].mon])]_vars

(***************************************************************************)
(* C26.  The fit of the tree of slot (workspace, monitor) uses the work    *)
(* area of that monitor and the eligible windows of that workspace on that *)
(* monitor: after the initial build the construction has not failed and    *)
(* every eligible window of every slot, the slots of the other workspaces  *)
(* and monitors included, has the rectangle the fit walk computes for its  *)
(* tile in the tree of its slot, less the spacing, in whole pixels.        *)
(***************************************************************************)
\* window w has the frame of the rectangle rect
PlacedAt(w, rect) ==
  frame[w] = moveResize(rect.x, rect.y, rect, getSpacing(gapsIn))

PlacedInSlot(s) ==
  \A w \in EligibleWindows(win, s[1], s[2]) :
    \E pr \in TileAreas(heap, RootOf(s), workArea(s[2], gapsIn, gapsOut)) :
      heap[pr[1]].id = w /\ PlacedAt(w, pr[2])

C26_BuildPlacesEverySlot ==
  events = 0 => app = "running" /\ \A s \in Slots : PlacedInSlot(s)

(***************************************************************************)
(* C27.  When a tiled window is closed, minimized or becomes ineligible in *)
(* another way, its Tile is removed from the tree before the next fit of   *)
(* that tree: no fit pass of a handler walks a tree with a Tile of a       *)
(* window that is closed or minimized.                                     *)
(***************************************************************************)
Gone(w) == ~win[w].exists \/ win[w].min

C27_NoFitOfGoneWindow ==
  (events > 0 /\ last.fit # "none") =>
    \A w \in TileIds(heap, forest[activeWs][last.cur]) : ~Gone(w)

(***************************************************************************)
(* C28.  When the set of workspaces or monitors changes after start-up the *)
(* forest is rebuilt, so that every slot of the host has a tree: a push, a *)
(* pop or a fit of a handler on an added workspace finds a tree.           *)
(***************************************************************************)
C28_HandlersFindTree ==
  last.op \in {"pushTree", "popTree", "settingsChanged"} =>
    activeWs \in DOMAIN forest

(***************************************************************************)
(* C29.  A fit of a tree that has a Tile whose id matches no window of the *)
(* live window list fails with an error instead of skipping the tile, and  *)
(* the failed fit leaves the tree as it was.  Stated of the fit pass of    *)
(* every handler; the settings handler does nothing but the fit, so the    *)
(* forest after it is the forest before it.                                *)
(***************************************************************************)
\* the tree a handler has fitted has a Tile of a window that is not in the
\* list the fit resolved tiles against
Dangling(h, t, wn, ws, cur) ==
  \E id \in TileIds(h, t) : id \notin EligibleWindows(wn, ws, cur)

C29_DanglingTileThrows ==
  [][(last'.fit # "none" /\ events' = events + 1
        /\ Dangling(heap', forest'[activeWs][last'.cur], win', activeWs,
                    last'.cur))
       => /\ last'.fit = "threw"
          /\ last'.op = "settingsChanged" => heap' = heap /\ forest' = forest
    ]_vars

\* the settings handler has fitted a tree of two or more tiles, one of a
\* window that is not in the list, and the fit has thrown
C29_Witness ==
  /\ last.op = "settingsChanged" /\ last.fit = "threw"
  /\ LeafCount(heap, forest[activeWs][last.cur]) >= 2
  /\ Dangling(heap, forest[activeWs][last.cur], win, activeWs, last.cur)
  /\ \E id \in TileIds(heap, forest[activeWs][last.cur]) :
       id \in EligibleWindows(win, activeWs, last.cur)

(***************************************************************************)
(* C30.  A node that is neither a Tile nor a Container of a valid shape, a *)
(* Container with exactly one child, raises an error and halts the walk    *)
(* when the fit walk reaches it and when the removal walk reaches it.      *)
(* Stated of every tree of the forest with one child of one of its         *)
(* Containers cut off, fitted against a window list that has every id.     *)
(***************************************************************************)
\* the populated Containers of tree t
Populated(h, t) ==
  { a \in Cells(h, t) :
      IsContainer(h[a]) /\ h[a].left # NULL /\ h[a].right # NULL }

\* heap h with the Container at a left with one child
OneChild(h, a, left) ==
  IF left THEN [h EXCEPT ![a].right = NULL] ELSE [h EXCEPT ![a].left = NULL]

\* the fit walk of tree t with every tile resolved has thrown
FitRaises(h, t, area) ==
  fitTree(h, t, area, Windows, getSpacing(gapsIn), FitStart(frame)).threw

\* the removal walk has ended with an error instead of a node
RemovalRaises(r) == "root" \notin DOMAIN r

C30_MalformedNodeRaises ==
  app = "running" =>
    \A s \in Slots : \A a \in Populated(heap, RootOf(s)) :
      \A left \in BOOLEAN :
        LET h == OneChild(heap, a, left)
        IN /\ FitRaises(h, RootOf(s), workArea(s[2], gapsIn, gapsOut))
           /\ \A id \in Windows : RemovalRaises(removeId(h, RootOf(s), id))

\* the half of C30 that is about the fit walk
FitWalkRaises ==
  app = "running" =>
    \A s \in Slots : \A a \in Populated(heap, RootOf(s)) :
      \A left \in BOOLEAN :
        FitRaises(OneChild(heap, a, left), RootOf(s),
                  workArea(s[2], gapsIn, gapsOut))

(***************************************************************************)
(* C31.  After every fit that succeeded, whatever the frames were before   *)
(* and whatever the settings have been, the frame of each tiled window is  *)
(* the rectangle the tree assigns to its Tile shrunk by the spacing on     *)
(* every side: {x + spacing, y + spacing, width - 2 * spacing,             *)
(* height - 2 * spacing}, in the whole pixels the host keeps.  Stated of   *)
(* the tree the constructor or the last handler has fitted.                *)
(***************************************************************************)
C31_FramesAreShrunkTiles ==
  Fitted =>
    \A pr \in TileAreas(heap, forest[activeWs][last.cur],
                        workArea(last.cur, gapsIn, gapsOut)) :
      PlacedAt(heap[pr[1]].id, pr[2])

(***************************************************************************)
(* C32.  Round trip: for every valid tree T, every point inside the work   *)
(* area and every id that is not in T, pushTree with a tile of that id     *)
(* followed by removeId of that id returns a tree structurally identical   *)
(* to T: the same shape, tile ids and split orientations.                  *)
(***************************************************************************)
\* removeId of id on the tree a push has left in r
PushThenRemove(r, t, id) == removeId(r.h, t, id)

C32_PushRemoveRoundTrip ==
  app = "running" =>
    \A s \in Slots : \A p \in PointsOn(s[2]) : \A id \in Windows :
      LET area == workArea(s[2], gapsIn, gapsOut)
          r == pushTree(heap, RootOf(s), PointOf(p), Tile(id), area)
      IN (/\ ValidTree(heap, RootOf(s))
          /\ pointInRectangle(PointOf(p), area)
          /\ id \notin TileIds(heap, RootOf(s))
          /\ r.st = "ok")
           => LET q == PushThenRemove(r, RootOf(s), id)
              IN TreeValue(q.h, q.root) = TreeValue(heap, RootOf(s))

\* a window the App saw created was pushed into a valid tree with tiles
\* and has then been removed from it
C32_Witness ==
  /\ last.op = "popTree" /\ last.present /\ last.delta = 0 - 1 /\ last.valid
  /\ win[last.win].exists /\ win[last.win].hooked
  /\ LeafCount(heap, forest[activeWs][last.cur]) >= 1
  /\ ValidTree(heap, forest[activeWs][last.cur])

(***************************************************************************)
(* C33.  removeId changes nothing but the split it collapses: for an id    *)
(* the tree holds, the Tile leaves that remain are in the order they were  *)
(* in, every Container that is still in the tree has the split and the     *)
(* constraint it had, and every Container but the parent of the removed    *)
(* Tile is still in the tree.  Stated of every valid tree of the forest.   *)
(***************************************************************************)
\* the parents of the Tiles of id in tree t
ParentsOf(h, t, id) ==
  { a \in Populated(h, t) :
      \/ IsTile(h[h[a].left]) /\ h[h[a].left].id = id
      \/ IsTile(h[h[a].right]) /\ h[h[a].right].id = id }

RemoveKeepsRest(h, t, q, id) ==
  /\ Leaves(q.h, q.root) = SelectSeq(Leaves(h, t), LAMBDA x : x # id)
  /\ \A a \in Populated(h, t) \cap Cells(q.h, q.root) :
       /\ IsContainer(q.h[a])
       /\ q.h[a].split = h[a].split
       /\ q.h[a].constraint = h[a].constraint
  /\ Populated(q.h, q.root) = Populated(h, t) \ ParentsOf(h, t, id)

C33_RemoveKeepsRest ==
  app = "running" =>
    \A s \in Slots : \A id \in Windows :
      (ValidTree(heap, RootOf(s)) /\ id \in TileIds(heap, RootOf(s)))
        => RemoveKeepsRest(heap, RootOf(s), removeId(heap, RootOf(s), id), id)

\* the pop handler has removed a tile from a valid tree of three or more
\* tiles, so that a Container and two Tiles remain
C33_Witness ==
  /\ last.op = "popTree" /\ last.present /\ last.delta = 0 - 1 /\ last.valid
  /\ LeafCount(heap, forest[activeWs][last.cur]) >= 2
  /\ Populated(heap, forest[activeWs][last.cur]) # {}

(***************************************************************************)
(* C34.  The rectangles #fitTree computes for the children of a populated  *)
(* Container are the rectangles #splitArea, which pushTree uses, computes  *)
(* for the same parent rectangle, split and constraint; so pushTree        *)
(* descends into the regions a fit assigns to the children.  Stated of     *)
(* every area, split and constraint of a table, and of the rectangles the  *)
(* two walks reach the Tiles of every tree of the forest with.             *)
(***************************************************************************)
\* the pairs of a Tile's cell and the rectangle the fit walk reaches it with
RECURSIVE FitTileAreas(_, _, _)
FitTileAreas(h, t, area) ==
  IF IsTile(h[t]) THEN {<<t, area>>}
  ELSE IF IsContainer(h[t]) /\ h[t].left # NULL /\ h[t].right # NULL
  THEN FitTileAreas(h, h[t].left, fitAreas(area, h[t]).left)
         \cup FitTileAreas(h, h[t].right, fitAreas(area, h[t]).right)
  ELSE {}

SameAreas(area, node) ==
  /\ fitAreas(area, node).left = splitArea(area, node).left
  /\ fitAreas(area, node).right = splitArea(area, node).right

FitAgreesWithSplit ==
  \A area \in SplitAreas : \A split \in Splits : \A c \in Constraints :
    SameAreas(area, ContainerWith(split, TRUE, c))

C34_FitUsesSplitAreas ==
  /\ FitAgreesWithSplit
  /\ app = "running" =>
       \A s \in Slots :
         FitTileAreas(heap, RootOf(s), workArea(s[2], gapsIn, gapsOut))
           = TileAreas(heap, RootOf(s), workArea(s[2], gapsIn, gapsOut))

\* the push handler has descended through a Container, split a Tile below
\* it, and the fit of the tree has succeeded
C34_Witness ==
  /\ last.op = "pushTree" /\ last.delta = 1 /\ last.inside /\ last.fit = "ok"
  /\ last.valid /\ ~last.present
  /\ LeafCount(heap, forest[activeWs][last.cur]) >= 3

====
